---- MODULE Spec2Model ----
(***************************************************************************)
(* Model of Hub::Network::WebSocketServer (src/hub/modules/network/        *)
(* wsserver.h): the accept thread, one thread per accepted connection, a   *)
(* controlling thread that calls start()/stop() and a caller thread that   *)
(* calls send/sendBinary/broadcast/closeClient.  Every access to shared    *)
(* state (running_, listenSocket_, clients_, clientsMutex_, the socket     *)
(* handles) is one step, so the interleavings of the C++ code are the      *)
(* behaviours of the model.                                                *)
(*                                                                         *)
(* Socket handles: accept() hands out any handle value that is free, so a  *)
(* handle closed once may be handed out again (htab maps a handle to the   *)
(* connection it currently names, 0 when it names none).                   *)
(*                                                                         *)
(* Undefined behaviour is a choice over its outcomes:                      *)
(*  - locking clientsMutex_ (a std::mutex) on the thread that owns it:     *)
(*    the thread blocks forever, or lock() throws std::system_error, or    *)
(*    the lock is re-entered (RelockOutcomes);                             *)
(*  - reading a WSClient through a pointer into clients_ after the map     *)
(*    node was erased: any value of the field (DerefSocket, DerefConn).    *)
(***************************************************************************)
EXTENDS Integers, Sequences, FiniteSets, TLC

\* ---------------------------------------------------------------- bounds
MaxConn == 2       \* connections the listening socket ever accepts
MaxHandles == 2    \* socket handle values the OS hands out
MaxEvents == 3     \* inputs in one run: connections accepted, frames sent
                   \* by peers, peers closing, calls of the facade, calls
                   \* of start() after the first

Ids == 1..MaxConn                 \* client ids == connection numbers
Handles == 1..MaxHandles
AccT == MaxConn + 1               \* the accept thread
MainT == MaxConn + 2              \* the thread calling start()/stop()
UserT == MaxConn + 3              \* the thread calling the facade
Threads == 1..(MaxConn + 3)       \* thread i \in Ids runs clientLoop(i)

\* enum class WSOpcode
Opcodes == {"CONTINUATION", "TEXT", "BINARY", "CLOSE", "PING", "PONG"}
\* What a peer puts on its stream as one frame: a complete frame with one of
\* these opcodes, TRUNC = a header that declares more payload than the peer
\* sends before it closes its end, HUGE = a header whose 64-bit length is
\* beyond what std::vector can hold.
FrameKinds == {"TEXT", "PING", "CLOSE", "CONTINUATION", "TRUNC", "HUGE"}
Requests == {"REQ_OK", "REQ_NOKEY"}   \* with / without Sec-WebSocket-Key

\* What locking a std::mutex on the owning thread can do.
RelockOutcomes == {"deadlock", "throw", "reenter"}

VARIABLES
  running,       \* std::atomic<bool> running_
  listenOpen,    \* listenSocket_ != INVALID_SOCKET
  nextClientId,  \* std::atomic<uint32_t> nextClientId_
  clients,       \* std::map<uint32_t, WSClient> clients_
  mutex,         \* owner of clientsMutex_, 0 when free
  clientThreads, \* ids whose threads are in clientThreads_
  pc,            \* position of every thread
  loc,           \* locals of every thread
  htab,          \* handle -> connection it names, 0 when closed
  inbox,         \* connection -> bytes sent by the peer and not yet read
  peerClosed,    \* connection -> the peer closed its end
  peerSent,      \* connection -> items the peer has sent so far
  wire,          \* connection -> what the server wrote to it, in order:
                 \* [op, data], op "101" for the handshake response (its
                 \* data is the client id whose handshake wrote it, the
                 \* data of a frame is its payload)
  events,        \* client id -> callbacks fired for it, in order: [cb, op,
                 \* data], op and data being the opcode and the payload
                 \* that onMessage was given
  rx,            \* client id -> the handshake request its thread read,
                 \* then what readFrame returned to it, in order
  crashed,       \* the thread whose uncaught exception ended the process, or 0
  uaf,           \* a WSClient was accessed after its map node was erased
  wfail,         \* <<id, call>>: the write of a frame to client id failed
                 \* while id was registered and connected (call is the
                 \* number of the facade call, the payload for a PONG, 0
                 \* for a CLOSE)
  mainRes,       \* result of the controlling thread's last call
  started,       \* start() has been called
  userOp,        \* the caller thread's current or last call; the message
                 \* of call number n is n, so no two calls send the same
  userRes,       \* its result
  budget,        \* inputs the run may still take (MaxEvents at first)
  hused,         \* highest handle value handed out so far
  snap,          \* the ids registered and connected that the current or
                 \* last broadcast / closeClient found under the lock
  detail         \* the part of the server FrameSpec and IdSpec examine at
                 \* full width: the frame readFrame is decoding with its
                 \* locals, or the id counter with the ids handed out

vars == <<running, listenOpen, nextClientId, clients, mutex, clientThreads,
          pc, loc, htab, inbox, peerClosed, peerSent, wire, events, rx,
          crashed, uaf, wfail, mainRes, started, userOp, userRes, budget,
          snap, hused, detail>>

sharedVars == <<running, listenOpen, nextClientId, clients, mutex,
                clientThreads, htab, hused>>
peerVars == <<inbox, peerClosed, peerSent>>
histVars == <<wire, events, rx, crashed, uaf, wfail>>
callVars == <<mainRes, started, userOp, userRes, budget, snap>>

NoClient == [present |-> FALSE, socket |-> 0, connected |-> FALSE]
NoLoc == [sock |-> 0, tgt |-> 0, id |-> 0, op |-> "", data |-> 0, ret |-> "",
          todo |-> {}]

Registered == {i \in Ids : clients[i].present}
\* size_t clientCount() const
clientCount == Cardinality(Registered)
\* bool isRunning() const
isRunning == running

\* nothing under examination
NoDetail == [stage |-> "idle"]

Min(S) == CHOOSE x \in S : \A y \in S : x <= y
ConnOpen(c) == \E h \in Handles : htab[h] = c
Goto(t, l) == [pc EXCEPT ![t] = l]
\* thread t is at l and the process has not been terminated
At(t, l) == crashed = 0 /\ pc[t] = l

\* the server object after construction, no connection yet
ServerInit ==
  /\ running = FALSE
  /\ listenOpen = FALSE
  /\ nextClientId = 1
  /\ clients = [i \in Ids |-> NoClient]
  /\ mutex = 0
  /\ clientThreads = {}
  /\ pc = [t \in Threads |-> IF t \in {MainT, UserT} THEN "idle" ELSE "none"]
  /\ loc = [t \in Threads |-> NoLoc]
  /\ htab = [h \in Handles |-> 0]
  /\ inbox = [c \in Ids |-> <<>>]
  /\ peerClosed = [c \in Ids |-> FALSE]
  /\ peerSent = [c \in Ids |-> 0]
  /\ wire = [c \in Ids |-> <<>>]
  /\ events = [i \in Ids |-> <<>>]
  /\ rx = [i \in Ids |-> <<>>]
  /\ crashed = 0
  /\ uaf = FALSE
  /\ wfail = {}
  /\ mainRes = "none"
  /\ started = FALSE
  /\ userOp = [name |-> "none", id |-> 0, call |-> 0]
  /\ userRes = "none"
  /\ budget = MaxEvents
  /\ hused = 0
  /\ snap = {}

Init == ServerInit /\ detail = NoDetail

\* ------------------------------------------------------------ the sockets
\* closesocket(h): the connection h names is closed; an h that names none
\* (closed already, or INVALID_SOCKET) is an error the code ignores.
CloseSocket(h) == IF h \in Handles THEN [htab EXCEPT ![h] = 0] ELSE htab
\* The handle values accept() can return: any closed one that was in use
\* before, or the next value never used (the values are interchangeable).
FreeHandles == {h \in Handles : htab[h] = 0 /\ h <= hused + 1}
CloseAll(H) == [h \in Handles |-> IF h \in H THEN 0 ELSE htab[h]]

\* client->socket / client->connected read by clientLoop(i) through the
\* pointer it took at its start: the field while the node is in the map,
\* anything once the node was erased.
DerefSocket(i) ==
  IF clients[i].present THEN {clients[i].socket} ELSE 0..MaxHandles
DerefConn(i) ==
  IF clients[i].present THEN {clients[i].connected} ELSE BOOLEAN
\* client->connected = v through the same pointer.
StoreConn(i, v) ==
  IF clients[i].present THEN [clients EXCEPT ![i].connected = v] ELSE clients
Dangling(i) == ~clients[i].present

\* onConnect_(clientId), onDisconnect_(clientId) as entries of events
Callback(name) == [cb |-> name, op |-> "", data |-> 0]

\* ----------------------------------------------------------------- peers
\* The peer of an accepted connection sends its handshake request, then
\* frames, one item at a time; it may stay silent and may close its end.
PeerSend(c) ==
  /\ crashed = 0
  /\ ConnOpen(c) /\ ~peerClosed[c] /\ inbox[c] = <<>>
  /\ \E item \in (IF peerSent[c] = 0 THEN Requests ELSE FrameKinds) :
       /\ inbox' = [inbox EXCEPT ![c] = <<item>>]
       \* after a truncated frame the peer closes
       /\ peerClosed' = [peerClosed EXCEPT ![c] = (item = "TRUNC")]
  /\ peerSent[c] > 0 => budget > 0
  /\ budget' = IF peerSent[c] > 0 THEN budget - 1 ELSE budget
  /\ peerSent' = [peerSent EXCEPT ![c] = @ + 1]
  /\ UNCHANGED <<sharedVars, pc, loc, histVars, mainRes, started, userOp,
                 userRes, snap>>
  /\ UNCHANGED detail

PeerClose(c) ==
  /\ crashed = 0
  /\ ConnOpen(c) /\ ~peerClosed[c]
  /\ budget > 0
  /\ budget' = budget - 1
  /\ peerClosed' = [peerClosed EXCEPT ![c] = TRUE]
  /\ UNCHANGED <<sharedVars, pc, loc, inbox, peerSent, histVars, mainRes,
                 started, userOp, userRes, snap>>
  /\ UNCHANGED detail

\* ------------------------------------------------------- start() / stop()
\* start() without "if (running_) return false;"
StartAgain ==
  /\ At(MainT, "idle")
  /\ ~started \/ budget > 0
  /\ started' = TRUE
  /\ budget' = IF started THEN budget - 1 ELSE budget
  /\ \/ /\ mainRes' = "start_false"
        /\ UNCHANGED <<running, listenOpen, pc>>
     \/ /\ listenOpen' = TRUE
        /\ running' = TRUE
        /\ pc' = Goto(AccT, "a_run")
        /\ mainRes' = "start_true"
  /\ UNCHANGED <<nextClientId, clients, mutex, clientThreads, loc, htab,
                 peerVars, histVars, userOp, userRes, snap, hused>>
  /\ UNCHANGED detail
\* start() without closesocket(listenSocket_) where bind or listen fails
StartKeepsSocket ==
  /\ At(MainT, "idle")
  /\ ~started \/ budget > 0
  /\ started' = TRUE
  /\ budget' = IF started THEN budget - 1 ELSE budget
  /\ \/ /\ running
        /\ mainRes' = "start_false"
        /\ UNCHANGED <<running, listenOpen, pc>>
     \/ /\ ~running
        /\ mainRes' = "start_false"
        /\ listenOpen' = TRUE
        /\ UNCHANGED <<running, pc>>
     \/ /\ ~running
        /\ listenOpen' = TRUE
        /\ running' = TRUE
        /\ pc' = Goto(AccT, "a_run")
        /\ mainRes' = "start_true"
  /\ UNCHANGED <<nextClientId, clients, mutex, clientThreads, loc, htab,
                 peerVars, histVars, userOp, userRes, snap, hused>>
  /\ UNCHANGED detail
\* bool start(uint16_t port): already running, or socket/bind/listen fails
\* (the socket is closed again): false; else the accept thread is started.
Start ==
  /\ At(MainT, "idle")
  /\ ~started \/ budget > 0
  /\ started' = TRUE
  /\ budget' = IF started THEN budget - 1 ELSE budget
  /\ \/ /\ running
        /\ mainRes' = "start_false"
        /\ UNCHANGED <<running, listenOpen, pc>>
     \/ /\ ~running
        /\ mainRes' = "start_false"
        /\ UNCHANGED <<running, listenOpen, pc>>
     \/ /\ ~running
        /\ listenOpen' = TRUE
        /\ running' = TRUE
        /\ pc' = Goto(AccT, "a_run")
        /\ mainRes' = "start_true"
  /\ UNCHANGED <<nextClientId, clients, mutex, clientThreads, loc, htab,
                 peerVars, histVars, userOp, userRes, snap, hused>>
  /\ UNCHANGED detail

\* stop() without "if (!running_) return;"
StopCallUnguarded ==
  /\ At(MainT, "idle")
  /\ running' = FALSE
  /\ pc' = Goto(MainT, "s_listen")
  /\ mainRes' = "stopping"
  /\ UNCHANGED <<listenOpen, nextClientId, clients, mutex, clientThreads,
                 loc, htab, peerVars, histVars, started, userOp, userRes,
                 budget, snap, hused>>
  /\ UNCHANGED detail
\* stop(): if (!running_) return; running_ = false;
StopCall ==
  /\ At(MainT, "idle")
  /\ IF running
       THEN /\ running' = FALSE
            /\ pc' = Goto(MainT, "s_listen")
            /\ mainRes' = "stopping"
       ELSE /\ mainRes' = "stop_noop"
            /\ UNCHANGED <<running, pc>>
  /\ UNCHANGED <<listenOpen, nextClientId, clients, mutex, clientThreads,
                 loc, htab, peerVars, histVars, started, userOp, userRes,
                 budget, snap, hused>>
  /\ UNCHANGED detail

\* closesocket(listenSocket_); listenSocket_ = INVALID_SOCKET;
StopCloseListen ==
  /\ At(MainT, "s_listen")
  /\ listenOpen' = FALSE
  /\ pc' = Goto(MainT, "s_clear")
  /\ UNCHANGED <<running, nextClientId, clients, mutex, clientThreads, loc,
                 htab, peerVars, histVars, callVars, hused>>
  /\ UNCHANGED detail

\* { lock_guard lock(clientsMutex_); for each client:
\*   closesocket(client.socket); clients_.clear(); }
StopClear ==
  /\ At(MainT, "s_clear")
  /\ mutex = 0
  /\ htab' = CloseAll({clients[i].socket : i \in Registered})
  /\ clients' = [i \in Ids |-> NoClient]
  /\ pc' = Goto(MainT, "s_join")
  /\ UNCHANGED <<running, listenOpen, nextClientId, mutex, clientThreads,
                 loc, peerVars, histVars, callVars, hused>>
  /\ UNCHANGED detail

\* stop() without the loop over clientThreads_
JoinSetAcceptOnly == {AccT}
\* the threads stop() waits for before it returns
JoinSet == {AccT} \cup clientThreads
\* stop() without clientThreads_.clear()
StopJoinKeepsThreads ==
  /\ At(MainT, "s_join")
  /\ \A t \in JoinSet : pc[t] = "done"
  /\ pc' = Goto(MainT, "idle")
  /\ mainRes' = "stopped"
  /\ UNCHANGED <<running, listenOpen, nextClientId, clients, mutex,
                 clientThreads, loc, htab, peerVars, histVars, started,
                 userOp, userRes, budget, snap, hused>>
  /\ UNCHANGED detail
\* acceptThread_.join(); for (auto &t : clientThreads_) t.join();
\* clientThreads_.clear(); WSACleanup(); return
StopJoin ==
  /\ At(MainT, "s_join")
  /\ \A t \in JoinSet : pc[t] = "done"
  /\ clientThreads' = {}
  /\ pc' = Goto(MainT, "idle")
  /\ mainRes' = "stopped"
  /\ UNCHANGED <<running, listenOpen, nextClientId, clients, mutex, loc,
                 htab, peerVars, histVars, started, userOp, userRes, budget,
                 snap, hused>>
  /\ UNCHANGED detail

\* ------------------------------------------------------------ acceptLoop()
\* while (running_)
AcceptTest ==
  /\ At(AccT, "a_run")
  /\ pc' = Goto(AccT, IF running THEN "a_accept" ELSE "done")
  /\ UNCHANGED <<sharedVars, loc, peerVars, histVars, callVars>>
  /\ UNCHANGED detail

\* accept(listenSocket_, ...) returns a connection: WSClient client;
\* client.id = nextClientId_++; client.socket = clientSocket;
AcceptConn ==
  /\ At(AccT, "a_accept")
  /\ listenOpen
  /\ nextClientId <= MaxConn /\ budget > 0
  /\ budget' = budget - 1
  /\ \E h \in FreeHandles :
       /\ htab' = [htab EXCEPT ![h] = nextClientId]
       /\ hused' = IF h > hused THEN h ELSE hused
       /\ loc' = [loc EXCEPT ![AccT] = [NoLoc EXCEPT !.sock = h,
                                                    !.id = nextClientId]]
  /\ nextClientId' = nextClientId + 1
  /\ pc' = Goto(AccT, "a_insert")
  /\ UNCHANGED <<running, listenOpen, clients, mutex, clientThreads,
                 peerVars, histVars, mainRes, started, userOp, userRes, snap>>
  /\ UNCHANGED detail

\* accept() returns INVALID_SOCKET (the listening socket was closed, or a
\* connection attempt failed): if (running_) continue; break;
AcceptFail ==
  /\ At(AccT, "a_accept")
  /\ pc' = Goto(AccT, IF running THEN "a_accept" ELSE "done")
  /\ UNCHANGED <<sharedVars, loc, peerVars, histVars, callVars>>
  /\ UNCHANGED detail

\* { lock_guard lock(clientsMutex_); clients_[client.id] = client; }
\* (client.connected = false), then
\* clientThreads_.emplace_back(&WebSocketServer::clientLoop, this, client.id);
AcceptInsert ==
  /\ At(AccT, "a_insert")
  /\ mutex = 0
  /\ clients' = [clients EXCEPT ![loc[AccT].id] =
                   [present |-> TRUE, socket |-> loc[AccT].sock,
                    connected |-> FALSE]]
  /\ clientThreads' = clientThreads \cup {loc[AccT].id}
  /\ pc' = [pc EXCEPT ![AccT] = "a_run", ![loc[AccT].id] = "c_find"]
  /\ loc' = [loc EXCEPT ![AccT] = NoLoc]
  /\ UNCHANGED <<running, listenOpen, nextClientId, mutex, htab, peerVars,
                 histVars, callVars, hused>>
  /\ UNCHANGED detail

\* ------------------------------------------------------------ recv / send
\* What recv(h, ...) can return now: an error on a handle that names no
\* connection, the next bytes of the stream, 0 when the peer closed; the
\* empty set while the call blocks.
RecvResults(h) ==
  IF h \notin Handles \/ htab[h] = 0 THEN {"ERR"}
  ELSE IF inbox[htab[h]] # <<>> THEN {inbox[htab[h]][1]}
  ELSE IF peerClosed[htab[h]] THEN {"EOF"}
  ELSE {}
\* the stream after recv(h, ...) returned r
Consumed(h, r) ==
  IF r \in {"ERR", "EOF"} THEN inbox ELSE [inbox EXCEPT ![htab[h]] = <<>>]
\* the connection a ::send(h, ...) writes to, 0 when h names none
SendTarget(h) == IF h \in Handles THEN htab[h] ELSE 0

\* ------------------------------------------------------------ sendFrame()
\* return from sendFrame to its caller; send()/sendBinary() return its value
SFReturn(t, ok) ==
  /\ pc' = Goto(t, loc[t].ret)
  /\ loc' = [loc EXCEPT ![t] = [NoLoc EXCEPT !.todo = loc[t].todo]]
  /\ userRes' = IF t = UserT /\ loc[t].ret = "idle"
                  THEN (IF ok THEN "true" ELSE "false") ELSE userRes

\* sendFrame with "return true" where the id is not found
SfFindMissingTrue(t) ==
  IF clients[loc[t].id].present
    THEN /\ pc' = Goto(t, "sf_send")
         /\ loc' = [loc EXCEPT ![t].sock = clients[loc[t].id].socket]
         /\ UNCHANGED userRes
    ELSE SFReturn(t, TRUE)
\* { lock_guard lock(clientsMutex_); it = clients_.find(clientId);
\*   if (it == clients_.end()) return false; sock = it->second.socket; }
SfFind(t) ==
  IF clients[loc[t].id].present
    THEN /\ pc' = Goto(t, "sf_send")
         /\ loc' = [loc EXCEPT ![t].sock = clients[loc[t].id].socket]
         /\ UNCHANGED userRes
    ELSE SFReturn(t, FALSE)

SfLookup(t) ==
  /\ At(t, "sf_lock")
  /\ mutex = 0
  /\ SfFind(t)
  /\ UNCHANGED <<sharedVars, peerVars, histVars, mainRes, started, userOp,
                 budget, snap>>
  /\ UNCHANGED detail

\* The lock_guard in sendFrame on the thread that already owns
\* clientsMutex_ (broadcast and closeClient call sendFrame under the lock).
SfRelockDeadlock(t) ==
  /\ At(t, "sf_lock")
  /\ mutex = t /\ "deadlock" \in RelockOutcomes
  /\ pc' = Goto(t, "deadlocked")
  /\ UNCHANGED <<sharedVars, loc, peerVars, histVars, callVars>>
  /\ UNCHANGED detail

\* lock() throws: the caller's lock_guard unlocks, the call ends by exception
SfRelockThrow(t) ==
  /\ At(t, "sf_lock")
  /\ mutex = t /\ "throw" \in RelockOutcomes
  /\ mutex' = 0
  /\ pc' = Goto(t, "idle")
  /\ loc' = [loc EXCEPT ![t] = NoLoc]
  /\ userRes' = "exception"
  /\ UNCHANGED <<running, listenOpen, nextClientId, clients, clientThreads,
                 htab, peerVars, histVars, mainRes, started, userOp, budget,
                 snap, hused>>
  /\ UNCHANGED detail

SfRelockReenter(t) ==
  /\ At(t, "sf_lock")
  /\ mutex = t /\ "reenter" \in RelockOutcomes
  /\ SfFind(t)
  /\ UNCHANGED <<sharedVars, peerVars, histVars, mainRes, started, userOp,
                 budget, snap>>
  /\ UNCHANGED detail

\* wfail once the ::send of thread t's frame has failed
WriteFailed(t) ==
  IF clients[loc[t].id].present /\ clients[loc[t].id].connected
    THEN wfail \cup {<<loc[t].id, loc[t].data>>} ELSE wfail

\* ::send(sock, frame...) is entered; on a handle that names no connection
\* it fails at once
SfSend(t) ==
  /\ At(t, "sf_send")
  /\ IF SendTarget(loc[t].sock) = 0
       THEN /\ SFReturn(t, FALSE)
            /\ wfail' = WriteFailed(t)
       ELSE /\ pc' = Goto(t, "sf_io")
            /\ loc' = [loc EXCEPT ![t].tgt = SendTarget(loc[t].sock)]
            /\ UNCHANGED <<userRes, wfail>>
  /\ UNCHANGED <<sharedVars, peerVars, wire, events, rx, crashed, uaf,
                 mainRes, started, userOp, budget, snap>>
  /\ UNCHANGED detail

\* ::send returns > 0: the frame is on the connection
SfIoDone(t) ==
  /\ At(t, "sf_io")
  /\ SendTarget(loc[t].sock) = loc[t].tgt
  /\ wire' = [wire EXCEPT ![loc[t].tgt] =
                Append(@, [op |-> loc[t].op, data |-> loc[t].data])]
  /\ SFReturn(t, TRUE)
  /\ UNCHANGED <<sharedVars, peerVars, events, rx, crashed, uaf, wfail,
                 mainRes,
                 started, userOp, budget, snap>>
  /\ UNCHANGED detail

\* ::send fails: the socket was closed meanwhile, or the peer is gone
SfIoFail(t) ==
  /\ At(t, "sf_io")
  /\ IF SendTarget(loc[t].sock) # loc[t].tgt
       THEN TRUE ELSE peerClosed[loc[t].tgt]
  /\ wfail' = WriteFailed(t)
  /\ SFReturn(t, FALSE)
  /\ UNCHANGED <<sharedVars, peerVars, wire, events, rx, crashed, uaf,
                 mainRes, started, userOp, budget, snap>>
  /\ UNCHANGED detail

\* ------------------------------------------------------------ clientLoop()
\* { lock_guard lock(clientsMutex_); it = clients_.find(clientId);
\*   if (it == clients_.end()) return; client = &it->second; }
ClientFind(i) ==
  /\ At(i, "c_find")
  /\ mutex = 0
  /\ pc' = Goto(i, IF clients[i].present THEN "hs_sock" ELSE "done")
  /\ UNCHANGED <<sharedVars, loc, peerVars, histVars, callVars>>
  /\ UNCHANGED detail

\* performHandshake(client->socket): the argument is read
HsSock(i) ==
  /\ At(i, "hs_sock")
  /\ \E h \in DerefSocket(i) : loc' = [loc EXCEPT ![i].sock = h]
  /\ uaf' = (uaf \/ Dangling(i))
  /\ pc' = Goto(i, "hs_recv")
  /\ UNCHANGED <<sharedVars, peerVars, wire, events, rx, crashed, wfail,
                 callVars>>
  /\ UNCHANGED detail

\* performHandshake without the test for Sec-WebSocket-Key
HsRecvAnyRequest(i) ==
  /\ At(i, "hs_recv")
  /\ \E r \in RecvResults(loc[i].sock) :
       /\ inbox' = Consumed(loc[i].sock, r)
       /\ rx' = IF r \in Requests THEN [rx EXCEPT ![i] = Append(@, r)] ELSE rx
       /\ pc' = Goto(i, IF r \in Requests THEN "hs_send" ELSE "hf_close")
  /\ UNCHANGED <<sharedVars, loc, peerClosed, peerSent, wire, events,
                 crashed, uaf, wfail, callVars>>
  /\ UNCHANGED detail
\* recv(sock, buffer, ...); received <= 0 or no Sec-WebSocket-Key: false
HsRecv(i) ==
  /\ At(i, "hs_recv")
  /\ \E r \in RecvResults(loc[i].sock) :
       /\ inbox' = Consumed(loc[i].sock, r)
       /\ rx' = IF r \in Requests THEN [rx EXCEPT ![i] = Append(@, r)] ELSE rx
       /\ pc' = Goto(i, IF r = "REQ_OK" THEN "hs_send" ELSE "hf_close")
  /\ UNCHANGED <<sharedVars, loc, peerClosed, peerSent, wire, events,
                 crashed, uaf, wfail, callVars>>
  /\ UNCHANGED detail

\* return ::send(sock, response...) > 0, the 101 response
HsSendOk(i) ==
  /\ At(i, "hs_send")
  /\ SendTarget(loc[i].sock) # 0
  /\ wire' = [wire EXCEPT ![SendTarget(loc[i].sock)] =
                Append(@, [op |-> "101", data |-> i])]
  /\ pc' = Goto(i, "c_open")
  /\ UNCHANGED <<sharedVars, loc, peerVars, events, rx, crashed, uaf, wfail,
                 callVars>>
  /\ UNCHANGED detail

HsSendFail(i) ==
  /\ At(i, "hs_send")
  /\ IF SendTarget(loc[i].sock) = 0
       THEN TRUE ELSE peerClosed[SendTarget(loc[i].sock)]
  /\ pc' = Goto(i, "hf_close")
  /\ UNCHANGED <<sharedVars, loc, peerVars, histVars, callVars>>
  /\ UNCHANGED detail

\* handshake failed: closesocket(client->socket);
HsFailClose(i) ==
  /\ At(i, "hf_close")
  /\ \E h \in DerefSocket(i) : htab' = CloseSocket(h)
  /\ uaf' = (uaf \/ Dangling(i))
  /\ pc' = Goto(i, "x_erase")
  /\ UNCHANGED <<running, listenOpen, nextClientId, clients, mutex,
                 clientThreads, loc, peerVars, wire, events, rx, crashed,
                 wfail,
                 callVars, hused>>
  /\ UNCHANGED detail

\* client->connected = true; onConnect_(clientId);
ClientOpen(i) ==
  /\ At(i, "c_open")
  /\ clients' = StoreConn(i, TRUE)
  /\ uaf' = (uaf \/ Dangling(i))
  /\ events' = [events EXCEPT ![i] = Append(@, Callback("onConnect"))]
  /\ pc' = Goto(i, "c_run")
  /\ UNCHANGED <<running, listenOpen, nextClientId, mutex, clientThreads,
                 loc, htab, peerVars, wire, rx, crashed, wfail, callVars,
                 hused>>
  /\ UNCHANGED detail

\* the loop left on !running_ without the call of onDisconnect_
ClientRunSilent(i) ==
  /\ At(i, "c_run")
  /\ pc' = Goto(i, IF running THEN "c_conn" ELSE "x_close")
  /\ UNCHANGED <<sharedVars, loc, peerVars, histVars, callVars>>
  /\ UNCHANGED detail
\* while (running_ ... ; after the loop: onDisconnect_(clientId);
ClientRun(i) ==
  /\ At(i, "c_run")
  /\ IF running
       THEN /\ pc' = Goto(i, "c_conn")
            /\ UNCHANGED events
       ELSE /\ pc' = Goto(i, "x_close")
            /\ events' = [events EXCEPT ![i] =
                            Append(@, Callback("onDisconnect"))]
  /\ UNCHANGED <<sharedVars, loc, peerVars, wire, rx, crashed, uaf, wfail,
                 callVars>>
  /\ UNCHANGED detail

\* ... && client->connected) readFrame(client->socket, msg): both fields
\* are read; a false connected ends the loop: onDisconnect_(clientId);
ClientConn(i) ==
  /\ At(i, "c_conn")
  /\ \E v \in DerefConn(i), h \in DerefSocket(i) :
       IF v THEN /\ pc' = Goto(i, "rf_recv")
                 /\ loc' = [loc EXCEPT ![i].sock = h]
                 /\ UNCHANGED events
            ELSE /\ pc' = Goto(i, "x_close")
                 /\ events' = [events EXCEPT ![i] =
                            Append(@, Callback("onDisconnect"))]
                 /\ UNCHANGED loc
  /\ uaf' = (uaf \/ Dangling(i))
  /\ UNCHANGED <<sharedVars, peerVars, wire, rx, crashed, wfail, callVars>>
  /\ UNCHANGED detail

\* readFrame(sock, msg) on what its recv calls return: "false" on a short
\* read, the opcode of a complete frame ("OTHER" for an opcode outside the
\* enum, as when the bytes are no frame at all), "throw" when
\* msg.data.resize(payloadLen) cannot allocate the declared length.
readFrame(r) ==
  IF r \in {"ERR", "EOF", "TRUNC"} THEN "false"
  ELSE IF r = "HUGE" THEN "throw"
  ELSE IF r \in Opcodes THEN r
  ELSE "OTHER"

\* The payload of the k-th item the peer of connection c sends: the
\* message of no facade call and the payload of no other item of any
\* connection.
Payload(c, k) == MaxEvents + (k - 1) * MaxConn + c
\* msg.data of the frame at the head of the stream h names
FramePayload(h) == Payload(htab[h], peerSent[htab[h]])
\* onMessage_(clientId, msg) for the frame with opcode f read from h
OnMessage(f, h) == [cb |-> "onMessage", op |-> f, data |-> FramePayload(h)]
\* a PING answered with an empty PONG
PongDataEmpty(h) == 0
\* case WSOpcode::PING: sendFrame(clientId, WSOpcode::PONG, msg.data);
PongData(h) == FramePayload(h)

\* if (readFrame(client->socket, msg)) { client->lastActivity = now;
\*   switch (msg.opcode) {...} } else { client->connected = false; }
\* An exception leaving the thread function ends the process.
RfRecv(i) ==
  /\ At(i, "rf_recv")
  /\ \E r \in RecvResults(loc[i].sock) :
       LET f == readFrame(r) IN
       /\ inbox' = Consumed(loc[i].sock, r)
       /\ rx' = [rx EXCEPT ![i] = Append(@, IF f = "false" THEN r ELSE f)]
       /\ crashed' = IF f = "throw" THEN i ELSE 0
       /\ uaf' = (uaf \/ (f # "throw" /\ Dangling(i)))
       /\ clients' = IF f \in {"false", "CLOSE"}
                       THEN StoreConn(i, FALSE) ELSE clients
       /\ events' = IF f \in {"TEXT", "BINARY"}
                      THEN [events EXCEPT ![i] =
                             Append(@, OnMessage(f, loc[i].sock))]
                      ELSE events
       /\ IF f = "PING"
            THEN /\ pc' = Goto(i, "sf_lock")
                 /\ loc' = [loc EXCEPT ![i] =
                              [NoLoc EXCEPT !.id = i, !.op = "PONG",
                                            !.data = PongData(loc[i].sock),
                                            !.ret = "c_run"]]
            ELSE /\ pc' = Goto(i, "c_run")
                 /\ loc' = [loc EXCEPT ![i] = NoLoc]
  /\ UNCHANGED <<running, listenOpen, nextClientId, mutex, clientThreads,
                 htab, peerClosed, peerSent, wire, wfail, callVars, hused>>
  /\ UNCHANGED detail

\* closesocket(client->socket);
ExitClose(i) ==
  /\ At(i, "x_close")
  /\ \E h \in DerefSocket(i) : htab' = CloseSocket(h)
  /\ uaf' = (uaf \/ Dangling(i))
  /\ pc' = Goto(i, "x_erase")
  /\ UNCHANGED <<running, listenOpen, nextClientId, clients, mutex,
                 clientThreads, loc, peerVars, wire, events, rx, crashed,
                 wfail,
                 callVars, hused>>
  /\ UNCHANGED detail

\* lock_guard lock(clientsMutex_); clients_.erase(clientId); return
ExitErase(i) ==
  /\ At(i, "x_erase")
  /\ mutex = 0
  /\ clients' = [clients EXCEPT ![i] = NoClient]
  /\ pc' = Goto(i, "done")
  /\ loc' = [loc EXCEPT ![i] = NoLoc]
  /\ UNCHANGED <<running, listenOpen, nextClientId, mutex, clientThreads,
                 htab, peerVars, histVars, callVars, hused>>
  /\ UNCHANGED detail

\* ------------------------------------------- send / broadcast / closeClient
\* send(clientId, message) / sendBinary(clientId, data):
\* return sendFrame(clientId, WSOpcode::TEXT / BINARY, ...)
UserSend(id, op) ==
  /\ At(UserT, "idle") /\ budget > 0
  /\ budget' = budget - 1
  /\ userOp' = [name |-> IF op = "TEXT" THEN "send" ELSE "sendBinary",
                id |-> id, call |-> userOp.call + 1]
  /\ userRes' = "pending"
  /\ loc' = [loc EXCEPT ![UserT] =
               [NoLoc EXCEPT !.id = id, !.op = op, !.data = userOp.call + 1,
                             !.ret = "idle"]]
  /\ pc' = Goto(UserT, "sf_lock")
  /\ UNCHANGED <<sharedVars, peerVars, histVars, mainRes, started, snap>>
  /\ UNCHANGED detail

\* broadcast(message) is called
UserBroadcast ==
  /\ At(UserT, "idle") /\ budget > 0
  /\ budget' = budget - 1
  /\ userOp' = [name |-> "broadcast", id |-> 0, call |-> userOp.call + 1]
  /\ userRes' = "pending"
  /\ pc' = Goto(UserT, "bc_lock")
  /\ UNCHANGED <<sharedVars, loc, peerVars, histVars, mainRes, started, snap>>
  /\ UNCHANGED detail

\* std::lock_guard<std::mutex> lock(clientsMutex_); for (... : clients_)
BcLock ==
  /\ At(UserT, "bc_lock")
  /\ mutex = 0
  /\ mutex' = UserT
  /\ loc' = [loc EXCEPT ![UserT].todo = Registered]
  /\ snap' = {i \in Registered : clients[i].connected}
  /\ pc' = Goto(UserT, "bc_next")
  /\ UNCHANGED <<running, listenOpen, nextClientId, clients, clientThreads,
                 htab, peerVars, histVars, mainRes, started, userOp, userRes,
                 budget, hused>>
  /\ UNCHANGED detail

\* the next map entry: if (client.connected) sendFrame(id, TEXT, ...);
BcNext ==
  /\ At(UserT, "bc_next")
  /\ loc[UserT].todo # {}
  /\ LET i == Min(loc[UserT].todo) IN
       IF clients[i].connected
         THEN /\ pc' = Goto(UserT, "sf_lock")
              /\ loc' = [loc EXCEPT ![UserT] =
                           [NoLoc EXCEPT !.id = i, !.op = "TEXT",
                                         !.data = userOp.call,
                                         !.ret = "bc_next",
                                         !.todo = loc[UserT].todo \ {i}]]
         ELSE /\ loc' = [loc EXCEPT ![UserT].todo = @ \ {i}]
              /\ UNCHANGED pc
  /\ UNCHANGED <<sharedVars, peerVars, histVars, callVars>>
  /\ UNCHANGED detail

\* end of the loop: the lock_guard unlocks, broadcast returns
BcReturn ==
  /\ At(UserT, "bc_next")
  /\ loc[UserT].todo = {}
  /\ mutex' = 0
  /\ pc' = Goto(UserT, "idle")
  /\ loc' = [loc EXCEPT ![UserT] = NoLoc]
  /\ userRes' = "void"
  /\ UNCHANGED <<running, listenOpen, nextClientId, clients, clientThreads,
                 htab, peerVars, histVars, mainRes, started, userOp, budget,
                 snap, hused>>
  /\ UNCHANGED detail

\* closeClient(clientId) is called
UserClose(id) ==
  /\ At(UserT, "idle") /\ budget > 0
  /\ budget' = budget - 1
  /\ userOp' = [name |-> "closeClient", id |-> id, call |-> userOp.call + 1]
  /\ userRes' = "pending"
  /\ pc' = Goto(UserT, "cc_lock")
  /\ UNCHANGED <<sharedVars, loc, peerVars, histVars, mainRes, started, snap>>
  /\ UNCHANGED detail

\* lock_guard lock(clientsMutex_); it = clients_.find(clientId);
\* if (it != clients_.end()) { sendFrame(clientId, WSOpcode::CLOSE, {});
CcLock ==
  /\ At(UserT, "cc_lock")
  /\ mutex = 0
  /\ IF clients[userOp.id].present
       THEN /\ mutex' = UserT
            /\ pc' = Goto(UserT, "sf_lock")
            /\ loc' = [loc EXCEPT ![UserT] =
                         [NoLoc EXCEPT !.id = userOp.id, !.op = "CLOSE",
                                       !.ret = "cc_close"]]
            /\ UNCHANGED userRes
       ELSE /\ pc' = Goto(UserT, "idle")
            /\ userRes' = "void"
            /\ UNCHANGED <<mutex, loc>>
  /\ snap' = {i \in {userOp.id} : clients[i].present /\ clients[i].connected}
  /\ UNCHANGED <<running, listenOpen, nextClientId, clients, clientThreads,
                 htab, peerVars, histVars, mainRes, started, userOp, budget,
                 hused>>
  /\ UNCHANGED detail

\* closesocket(it->second.socket); it->second.connected = false; } unlock
CcClose ==
  /\ At(UserT, "cc_close")
  /\ htab' = CloseSocket(clients[userOp.id].socket)
  /\ clients' = [clients EXCEPT ![userOp.id].connected = FALSE]
  /\ mutex' = 0
  /\ pc' = Goto(UserT, "idle")
  /\ loc' = [loc EXCEPT ![UserT] = NoLoc]
  /\ userRes' = "void"
  /\ UNCHANGED <<running, listenOpen, nextClientId, clientThreads, peerVars,
                 histVars, mainRes, started, userOp, budget, snap, hused>>
  /\ UNCHANGED detail

\* ------------------------------------------------------------------- Next
MainStep ==
  \/ Start \/ StopCall \/ StopCloseListen \/ StopClear \/ StopJoin

AcceptStep ==
  \/ AcceptTest \/ AcceptConn \/ AcceptFail \/ AcceptInsert

SendFrameStep(t) ==
  \/ SfLookup(t) \/ SfSend(t) \/ SfIoDone(t) \/ SfIoFail(t)

ClientStep(i) ==
  \/ ClientFind(i) \/ HsSock(i) \/ HsRecv(i) \/ HsSendOk(i) \/ HsSendFail(i)
  \/ HsFailClose(i) \/ ClientOpen(i) \/ ClientRun(i) \/ ClientConn(i)
  \/ RfRecv(i) \/ ExitClose(i) \/ ExitErase(i)
  \/ SendFrameStep(i)

UserStep ==
  \/ \E id \in Ids, op \in {"TEXT", "BINARY"} : UserSend(id, op)
  \/ UserBroadcast \/ BcLock \/ BcNext \/ BcReturn
  \/ \E id \in Ids : UserClose(id)
  \/ CcLock \/ CcClose
  \/ SendFrameStep(UserT)
  \/ SfRelockDeadlock(UserT) \/ SfRelockThrow(UserT)
  \/ SfRelockReenter(UserT)

\* every step of the server's own threads
ServerStep == MainStep \/ AcceptStep \/ UserStep \/ \E i \in Ids : ClientStep(i)

PeerStep == \E c \in Ids : PeerSend(c) \/ PeerClose(c)

Next == ServerStep \/ PeerStep

Spec == Init /\ [][Next]_vars

\* ------------------------------------------------- readFrame, byte by byte
\* sendFrame's encoding of one frame and readFrame(sock, msg) on the bytes
\* of one frame: the two header bytes, the extended length bytes, the
\* masking key, the allocation and the read of the payload.  The header, the
\* extended length and the masking key arrive whole; of the payload the peer
\* sends `avail` bytes and then closes.
\*
\* A payload is [len, pat]: len bytes, the byte at offset i being
\* pat[i % 4 + 1].  XOR with a 4-byte key keeps that form, so masking and
\* unmasking are computed on every byte of payloads of any length.
serverVars == <<running, listenOpen, nextClientId, clients, mutex,
                clientThreads, pc, loc, htab, inbox, peerClosed, peerSent,
                wire, events, rx, crashed, uaf, wfail, mainRes, started,
                userOp, userRes, budget, snap, hused>>

\* a uint64_t as four 16-bit words, the most significant first
Zero64 == <<0, 0, 0, 0>>
\* payloadLen = (ext[0] << 8) | ext[1]
Len16(e) == <<0, 0, 0, e[1] * 256 + e[2]>>
\* for (i = 0; i < 8; ++i) payloadLen = (payloadLen << 8) | ext[i];
Len64(e) == <<e[1] * 256 + e[2], e[3] * 256 + e[4],
              e[5] * 256 + e[6], e[7] * 256 + e[8]>>
\* static_cast<int>(payloadLen): the low 32 bits as a two's complement int
IntCast(v) ==
  IF v[3] >= 32768 THEN (v[3] - 65536) * 65536 + v[4]
  ELSE v[3] * 65536 + v[4]
\* the uint64_t of a byte count n >= 0
U64Of(n) == <<0, 0, n \div 65536, n % 65536>>
\* msg.data.resize(payloadLen): beyond max_size() (2^63 - 1) it throws
\* std::length_error; 2 GiB and more the machine has or has not
\* (std::bad_alloc); less than that is allocated.
ResizeOutcomes(v) ==
  IF v[1] >= 32768 THEN {"throw"}
  ELSE IF v[1] # 0 \/ v[2] # 0 \/ v[3] >= 32768 THEN {"ok", "throw"}
  ELSE {"ok"}
\* recv(sock, buf, n, MSG_WAITALL) when the peer sends a bytes and closes:
\* SOCKET_ERROR for a negative n, 0 for n = 0, n when that many come, else
\* the bytes that came
RecvCount(n, a) ==
  IF n < 0 THEN -1 ELSE IF n = 0 THEN 0 ELSE IF a >= n THEN n ELSE a

\* a ^ b on uint8_t
RECURSIVE Xor(_, _)
Xor(a, b) ==
  IF a = 0 THEN b ELSE IF b = 0 THEN a
  ELSE 2 * Xor(a \div 2, b \div 2) + ((a + b) % 2)
\* for (i = 0; i < msg.data.size(); ++i) msg.data[i] ^= mask[i % 4];
\* without the XOR
UnmaskNothing(pat, mask) == pat
\* for (i = 0; i < msg.data.size(); ++i) msg.data[i] ^= mask[i % 4];
Unmask(pat, mask) == [k \in 1..4 |-> Xor(pat[k], mask[k])]
\* the bytes of a buffer of which the first n came from a stream with
\* pattern pat: the first four say what every byte is
Content(n, pat) == SubSeq(pat, 1, IF n < 4 THEN n ELSE 4)

\* enum class WSOpcode : uint8_t
OpByte(op) ==
  CASE op = "CONTINUATION" -> 0 [] op = "TEXT" -> 1 [] op = "BINARY" -> 2
    [] op = "CLOSE" -> 8 [] op = "PING" -> 9 [] op = "PONG" -> 10
\* byte i (0 the least significant) of a uint64_t: (size >> (i * 8)) & 0xFF
SizeByte(v, i) ==
  LET w == v[4 - (i \div 2)] IN IF i % 2 = 0 THEN w % 256 ELSE w \div 256
\* sendFrame's length field with the tiers split at 126 and 65536 but the
\* extended lengths written least significant byte first
EncodeLengthLittleEndian(n) ==
  IF n <= 125 THEN <<n>>
  ELSE IF n <= 65535 THEN <<126, n % 256, (n \div 256) % 256>>
  ELSE <<127>> \o [k \in 1..8 |-> SizeByte(U64Of(n), k - 1)]
\* if (data.size() <= 125) {...} else if (data.size() <= 65535) {...}
\* else { frame.push_back(127); for (i = 7; i >= 0; --i) ... }
EncodeLength(n) ==
  IF n <= 125 THEN <<n>>
  ELSE IF n <= 65535 THEN <<126, (n \div 256) % 256, n % 256>>
  ELSE <<127>> \o [k \in 1..8 |-> SizeByte(U64Of(n), 8 - k)]
\* frame.push_back(0x80 | opcode); the length; frame.insert(..., data)
\* (an opcode is below 0x80, so the OR is a sum)
EncodeFrame(op, data) ==
  [head |-> <<128 + OpByte(op)>> \o EncodeLength(data.len), data |-> data]

\* the bytes of the frames examined
LowLens == {0, 5, 125}
Ext2 == {<<a, b>> : a \in {0, 1, 255}, b \in {0, 5, 255}}
Ext8 == {<<a, 0, 0, b, c, d, d, e>> :
           a \in {0, 128}, b \in {0, 1}, c \in {0, 128, 255},
           d \in {0, 255}, e \in {0, 5, 255}}
\* payload bytes the peer sends before it closes; the last is INT_MAX,
\* which is as many as any recv asks for
Avails == {0, 5, 2147483647}
\* first header bytes: TEXT and PONG with FIN, BINARY without, the reserved
\* opcode 3 with FIN and RSV1
Byte0s == {129, 138, 2, 195}
\* masking keys and payload patterns
Keys == {<<55, 250, 33, 61>>, <<0, 255, 128, 1>>}
Patterns == {<<72, 101, 108, 108>>, <<0, 255, 127, 128>>}
\* the frames handed to sendFrame: every opcode a frame is sent with and a
\* payload length on each side of each tier boundary
SentOpcodes == {"TEXT", "BINARY", "CLOSE", "PING", "PONG"}
SentLens == {0, 1, 125, 126, 65535, 65536, 200000}
NoFrame == [opcode |-> "", data |-> [len |-> 0, pat |-> <<>>]]
NoBytes == [head |-> <<>>, data |-> [len |-> 0, pat |-> <<>>]]

\* readFrame's input and locals, with the frame sendFrame was given when
\* the input is a frame of sendFrame
FrameState(st, b0, b1, e, key, a, p, sent, skey) ==
  [stage |-> st, header |-> <<b0, b1>>, ext |-> e, key |-> key,
   avail |-> a, pat |-> p, sent |-> sent, sendkey |-> skey,
   frame |-> NoBytes, opcode |-> 0, masked |-> FALSE,
   payloadLen |-> Zero64, mask |-> <<0, 0, 0, 0>>, received |-> 0,
   data |-> [size |-> Zero64, bytes |-> 0, pat |-> <<>>],
   result |-> "none"]
FrameInputs ==
  {FrameState("header", b0, m * 128 + l, e, key, a, p, NoFrame, <<>>) :
     b0 \in Byte0s, m \in {0, 1}, l \in LowLens \cup {126, 127},
     e \in {<<>>} \cup Ext2 \cup Ext8, key \in {<<>>} \cup Keys,
     a \in Avails, p \in Patterns}
Len7(c) == c.header[2] % 128
WellFormedInput(c) ==
  /\ Len(c.ext) = (IF Len7(c) = 126 THEN 2 ELSE IF Len7(c) = 127 THEN 8
                   ELSE 0)
  /\ Len(c.key) = (IF c.header[2] >= 128 THEN 4 ELSE 0)
SendInputs ==
  {FrameState("build", 0, 0, <<>>, <<>>, 0, <<>>,
              [opcode |-> o, data |-> [len |-> n, pat |-> p]], k) :
     o \in SentOpcodes, n \in SentLens, p \in Patterns,
     k \in {<<>>} \cup Keys}

FrameInit ==
  /\ ServerInit
  /\ detail \in {c \in FrameInputs : WellFormedInput(c)} \cup SendInputs

\* sendFrame builds the frame's bytes
SfBuild ==
  /\ detail.stage = "build"
  /\ detail' = [detail EXCEPT
                  !.frame = EncodeFrame(detail.sent.opcode, detail.sent.data),
                  !.stage = "wire"]
  /\ UNCHANGED serverVars

\* the bytes are written to a stream that a readFrame reads, all of them
TransmitPlain ==
  /\ detail.stage = "wire" /\ detail.sendkey = <<>>
  /\ detail' = [detail EXCEPT
                  !.header = SubSeq(detail.frame.head, 1, 2),
                  !.ext = SubSeq(detail.frame.head, 3,
                                 Len(detail.frame.head)),
                  !.avail = detail.frame.data.len,
                  !.pat = detail.frame.data.pat,
                  !.stage = "header"]
  /\ UNCHANGED serverVars

\* the same frame as a client sends it: the MASK bit set, the key after the
\* length, every payload byte XORed with key[i % 4]
TransmitMasked ==
  /\ detail.stage = "wire" /\ detail.sendkey # <<>>
  /\ detail' = [detail EXCEPT
                  !.header = <<detail.frame.head[1],
                               detail.frame.head[2] + 128>>,
                  !.ext = SubSeq(detail.frame.head, 3,
                                 Len(detail.frame.head)),
                  !.key = detail.sendkey,
                  !.avail = detail.frame.data.len,
                  !.pat = [k \in 1..4 |->
                             Xor(detail.frame.data.pat[k],
                                 detail.sendkey[k])],
                  !.stage = "header"]
  /\ UNCHANGED serverVars

\* msg.opcode = header[0] & 0x0F; masked = (header[1] & 0x80) != 0;
\* uint64_t payloadLen = header[1] & 0x7F;
RfHeader ==
  /\ detail.stage = "header"
  /\ detail' = [detail EXCEPT
                 !.opcode = detail.header[1] % 16,
                 !.masked = (detail.header[2] \div 128) % 2 = 1,
                 !.payloadLen = <<0, 0, 0, detail.header[2] % 128>>,
                 !.stage = IF detail.header[2] % 128 >= 126 THEN "ext"
                           ELSE "mask"]
  /\ UNCHANGED serverVars

\* if (payloadLen == 126) {...} else if (payloadLen == 127) {...}
RfExtLen ==
  /\ detail.stage = "ext"
  /\ detail' = [detail EXCEPT
                 !.payloadLen = IF detail.payloadLen[4] = 126
                                  THEN Len16(detail.ext)
                                  ELSE Len64(detail.ext),
                 !.stage = "mask"]
  /\ UNCHANGED serverVars

\* uint8_t mask[4] = {0}; if (masked) recv(sock, mask, 4, MSG_WAITALL)
RfMask ==
  /\ detail.stage = "mask"
  /\ detail' = [detail EXCEPT
                 !.mask = IF detail.masked THEN detail.key ELSE @,
                 !.stage = "resize"]
  /\ UNCHANGED serverVars

\* msg.data.resize(payloadLen); a payloadLen of 0 returns true at once
RfResize ==
  /\ detail.stage = "resize"
  /\ \E o \in ResizeOutcomes(detail.payloadLen) :
       detail' = IF o = "throw"
                  THEN [detail EXCEPT !.stage = "done", !.result = "throw"]
                ELSE IF detail.payloadLen = Zero64
                  THEN [detail EXCEPT !.stage = "done", !.result = "true"]
                ELSE [detail EXCEPT !.stage = "payload",
                                    !.data.size = detail.payloadLen]
  /\ UNCHANGED serverVars

\* int received = recv(sock, data, static_cast<int>(payloadLen),
\* MSG_WAITALL); if (received != static_cast<int>(payloadLen)) return false;
\* if (masked) ... msg.data[i] ^= mask[i % 4]; return true;
RfPayload ==
  /\ detail.stage = "payload"
  /\ LET n == IntCast(detail.payloadLen)
         r == RecvCount(n, detail.avail) IN
       detail' = [detail EXCEPT
                  !.received = r,
                  !.data.bytes = IF r > 0 THEN r ELSE 0,
                  !.data.pat =
                     Content(r, IF r = n /\ detail.masked
                                  THEN Unmask(detail.pat, detail.mask)
                                  ELSE detail.pat),
                  !.stage = "done",
                  !.result = IF r # n THEN "false" ELSE "true"]
  /\ UNCHANGED serverVars

FrameNext ==
  \/ SfBuild \/ TransmitPlain \/ TransmitMasked
  \/ RfHeader \/ RfExtLen \/ RfMask \/ RfResize \/ RfPayload

FrameSpec == FrameInit /\ [][FrameNext]_vars

\* ---------------------------------------------------- the client ids, 32 bit
\* std::atomic<uint32_t> nextClientId_ at its width, as two 16-bit words,
\* the more significant first; acceptLoop's client.id = nextClientId_++ and
\* clients_[client.id] = client, clientLoop's clients_.erase(clientId),
\* stop()'s clients_.clear(), and start().  The counter of a server object
\* that has accepted n - 1 connections is n.
MaxIssued == 4   \* connections accepted in one run of IdSpec

\* nextClientId_++ on a uint32_t
Inc32(v) ==
  IF v[2] = 65535 THEN <<(v[1] + 1) % 65536, 0>> ELSE <<v[1], v[2] + 1>>
\* a < b on uint32_t
Less32(a, b) == a[1] < b[1] \/ (a[1] = b[1] /\ a[2] < b[2])
\* the counter when the run begins: 1 after construction, 65534,
\* 2^31 - 2 and 2^32 - 3 after that many connections less one
IdStarts == {<<0, 1>>, <<0, 65534>>, <<32767, 65534>>, <<65535, 65533>>}

IdInit ==
  /\ ServerInit
  /\ detail \in {[stage |-> "ids", nextClientId |-> n, issued |-> <<>>,
                   registry |-> {}, up |-> FALSE] : n \in IdStarts}

\* start() returns true: neither the counter nor the registry is touched
IdStart ==
  /\ detail.stage = "ids" /\ ~detail.up
  /\ detail' = [detail EXCEPT !.up = TRUE]
  /\ UNCHANGED serverVars

\* stop(): clients_.clear(); the counter is not touched
IdStop ==
  /\ detail.stage = "ids" /\ detail.up
  /\ detail' = [detail EXCEPT !.up = FALSE, !.registry = {}]
  /\ UNCHANGED serverVars

\* client.id = nextClientId_++; ... clients_[client.id] = client;
IdAccept ==
  /\ detail.stage = "ids" /\ detail.up
  /\ Len(detail.issued) < MaxIssued
  /\ detail' = [detail EXCEPT
                  !.issued = Append(@, detail.nextClientId),
                  !.registry = @ \cup {detail.nextClientId},
                  !.nextClientId = Inc32(@)]
  /\ UNCHANGED serverVars

\* clientLoop(id) ends: clients_.erase(clientId);
IdErase ==
  /\ detail.stage = "ids"
  /\ \E id \in detail.registry :
       detail' = [detail EXCEPT !.registry = @ \ {id}]
  /\ UNCHANGED serverVars

IdNext == IdStart \/ IdStop \/ IdAccept \/ IdErase

IdSpec == IdInit /\ [][IdNext]_vars

\* ------------------------------------------ performHandshake, read by read
\* The first HTTP request of a connection as its tokens, and the reads the
\* transport delivers it in.  "G" is the request line with its CRLF, "H"
\* another header line with its CRLF, "K" the text `Sec-WebSocket-Key: `,
\* "V" one half of the key's value, "N" the CRLF that ends the key's line,
\* "E" the blank line that ends the request.  Every request examined is far
\* shorter than char buffer[4096], so recv(sock, buffer, sizeof(buffer) - 1,
\* 0) returns the whole of what the transport delivers first.
OtherHeaders == {<<>>, <<"H">>}
KeyRequests ==
  {<<"G">> \o a \o <<"K", "V", "V", "N">> \o b \o <<"E">> :
     a \in OtherHeaders, b \in OtherHeaders}
NoKeyRequests == {<<"G">> \o a \o <<"E">> : a \in OtherHeaders}
\* where the transport splits a request of n tokens: after each token of
\* the set (none: the request comes in one read)
Cuts(n) == SUBSET (1..(n - 1))
\* the tokens the first recv returns
FirstRead(req, cuts) ==
  SubSeq(req, 1, Min(cuts \cup {Len(req)}))
\* std::string::find: the first position >= from that holds tok, 0 for npos
Find(s, tok, from) ==
  LET P == {k \in from..Len(s) : s[k] = tok} IN
  IF P = {} THEN 0 ELSE Min(P)

HandshakeInit ==
  /\ ServerInit
  /\ \E r \in KeyRequests \cup NoKeyRequests : \E c \in Cuts(Len(r)) :
       detail = [stage |-> "recv", request |-> r, cuts |-> c,
                 buffer |-> <<>>, key |-> <<>>, result |-> "none"]

\* int received = recv(sock, buffer, sizeof(buffer) - 1, 0);
\* buffer[received] = '\0'; std::string request(buffer);
PhRecv ==
  /\ detail.stage = "recv"
  /\ detail' = [detail EXCEPT
                  !.buffer = FirstRead(detail.request, detail.cuts),
                  !.stage = "find"]
  /\ UNCHANGED serverVars

\* keyPos = request.find("Sec-WebSocket-Key: "); if (keyPos == npos) return
\* false; keyEnd = request.find("\r\n", keyPos); key = request.substr(keyPos
\* + 19, keyEnd - keyPos - 19): up to the CRLF, or the rest of the string
\* when there is none
PhFindKey ==
  /\ detail.stage = "find"
  /\ LET keyPos == Find(detail.buffer, "K", 1)
         keyEnd == Find(detail.buffer, "N", keyPos + 1) IN
       detail' =
         IF keyPos = 0
           THEN [detail EXCEPT !.stage = "done", !.result = "false"]
           ELSE [detail EXCEPT
                   !.stage = "send",
                   !.key = SubSeq(detail.buffer, keyPos + 1,
                                  IF keyEnd = 0 THEN Len(detail.buffer)
                                  ELSE keyEnd - 1)]
  /\ UNCHANGED serverVars

\* return ::send(sock, response...) > 0: the 101 with the accept value of
\* key, to a peer that is waiting for it
PhRespond ==
  /\ detail.stage = "send"
  /\ detail' = [detail EXCEPT !.stage = "done", !.result = "true"]
  /\ UNCHANGED serverVars

HandshakeNext == PhRecv \/ PhFindKey \/ PhRespond

HandshakeSpec == HandshakeInit /\ [][HandshakeNext]_vars

\* ------------------------------------------------------ generateAcceptKey
\* generateAcceptKey(clientKey) = base64Encode(sha1(clientKey + GUID)), run
\* one step at a time: the concatenation, sha1's padding, the message
\* schedule of a block, each of its 80 rounds, the addition to h0..h4, the
\* 20 result bytes and base64Encode.  Strings are sequences of character
\* codes; a uint32_t is two 16-bit words, the more significant first.

\* "258EAFA5-E914-47DA-95CA-C5AB0DC85B11"
MagicGuid ==
  <<50, 53, 56, 69, 65, 70, 65, 53, 45, 69, 57, 49, 52, 45, 52, 55, 68, 65,
  45, 57, 53, 67, 65, 45, 67, 53, 65, 66, 48, 68, 67, 56, 53, 66, 49, 49>>
\* the key of the example in RFC 6455, another 24-character key, no key text
RfcKey ==
  <<100, 71, 104, 108, 73, 72, 78, 104, 98, 88, 66, 115, 90, 83, 66, 117,
  98, 50, 53, 106, 90, 81, 61, 61>>
OtherKey ==
  <<120, 51, 74, 74, 72, 77, 98, 68, 76, 49, 69, 122, 76, 107, 104, 57, 71,
  66, 104, 88, 68, 119, 61, 61>>
EmptyKey ==
  <<>>
ClientKeys == {RfcKey, OtherKey, EmptyKey}
\* static const char *chars = "ABC...XYZabc...xyz0123456789+/"
Base64Chars ==
  <<"A", "B", "C", "D", "E", "F", "G", "H", "I", "J", "K", "L", "M", "N",
  "O", "P", "Q", "R", "S", "T", "U", "V", "W", "X", "Y", "Z", "a", "b", "c",
  "d", "e", "f", "g", "h", "i", "j", "k", "l", "m", "n", "o", "p", "q", "r",
  "s", "t", "u", "v", "w", "x", "y", "z", "0", "1", "2", "3", "4", "5", "6",
  "7", "8", "9", "+", "/">>

\* a & b on uint16_t
RECURSIVE And(_, _)
And(a, b) ==
  IF a = 0 \/ b = 0 THEN 0
  ELSE 2 * And(a \div 2, b \div 2) + ((a % 2) * (b % 2))
\* ^, &, |, ~ and + on uint32_t
Xor32(x, y) == <<Xor(x[1], y[1]), Xor(x[2], y[2])>>
And32(x, y) == <<And(x[1], y[1]), And(x[2], y[2])>>
Or32(x, y) ==
  <<x[1] + y[1] - And(x[1], y[1]), x[2] + y[2] - And(x[2], y[2])>>
Not32(x) == <<65535 - x[1], 65535 - x[2]>>
Add32(x, y) ==
  LET lo == x[2] + y[2] IN
  <<(x[1] + y[1] + (lo \div 65536)) % 65536, lo % 65536>>
\* (x << n) | (x >> (32 - n)) on uint32_t, 0 < n < 32, n # 16
Rotl(x, n) ==
  LET y == IF n < 16 THEN x ELSE <<x[2], x[1]>>
      m == IF n < 16 THEN n ELSE n - 16 IN
  <<((y[1] * 2^m) % 65536) + (y[2] \div 2^(16 - m)),
    ((y[2] * 2^m) % 65536) + (y[1] \div 2^(16 - m))>>

\* h0..h4 = 0x67452301, 0xEFCDAB89, 0x98BADCFE, 0x10325476, 0xC3D2E1F0
ShaInit ==
  <<<<26437, 8961>>, <<61389, 43913>>, <<39098, 56574>>, <<4146, 21622>>,
    <<50130, 57840>>>>
\* k of round j: 0x5A827999, 0x6ED9EBA1, 0x8F1BBCDC, 0xCA62C1D6
ShaK(j) ==
  IF j < 20 THEN <<23170, 31129>> ELSE IF j < 40 THEN <<28377, 60321>>
  ELSE IF j < 60 THEN <<36635, 48348>> ELSE <<51810, 49622>>
\* f of every round taken as b ^ c ^ d
ShaFParity(j, b, c, d) == Xor32(Xor32(b, c), d)
\* f of round j
ShaF(j, b, c, d) ==
  IF j < 20 THEN Or32(And32(b, c), And32(Not32(b), d))
  ELSE IF j < 40 THEN Xor32(Xor32(b, c), d)
  ELSE IF j < 60 THEN Or32(Or32(And32(b, c), And32(b, d)), And32(c, d))
  ELSE Xor32(Xor32(b, c), d)

\* msg.push_back(0x80); while (msg.size() % 64 != 56) msg.push_back(0);
\* then the 8 bytes of bitLen = size * 8, the most significant first
ShaPad(m) ==
  LET bitLen == Len(m) * 8 IN
  m \o <<128>> \o [k \in 1..((55 - Len(m)) % 64) |-> 0]
    \o <<0, 0, 0, 0>>
    \o [k \in 1..4 |-> (bitLen \div (256 ^ (4 - k))) % 256]
\* w[j] = (msg[i + j*4] << 24) | ... | msg[i + j*4 + 3], j < 16, of the
\* block that starts at offset i
ShaWord(m, i, j) ==
  <<m[i + j * 4 + 1] * 256 + m[i + j * 4 + 2],
    m[i + j * 4 + 3] * 256 + m[i + j * 4 + 4]>>
\* for (j = 16; j < 80; ++j) { t = w[j-3] ^ w[j-8] ^ w[j-14] ^ w[j-16];
\* w[j] = (t << 1) | (t >> 31); }  (the code's w[j] is w[j + 1] here)
RECURSIVE ShaSchedule(_)
ShaSchedule(w) ==
  IF Len(w) = 80 THEN w
  ELSE LET n == Len(w) + 1
           t == Xor32(Xor32(w[n - 3], w[n - 8]),
                      Xor32(w[n - 14], w[n - 16])) IN
       ShaSchedule(Append(w, Rotl(t, 1)))
\* one round on <<a, b, c, d, e>>: temp = rotl(a, 5) + f + e + k + w[j];
\* e = d; d = c; c = rotl(b, 30); b = a; a = temp;
ShaRound(v, j, wj) ==
  LET temp == Add32(Add32(Add32(Add32(Rotl(v[1], 5),
                                      ShaF(j, v[2], v[3], v[4])),
                                v[5]), ShaK(j)), wj) IN
  <<temp, v[1], Rotl(v[2], 30), v[3], v[4]>>
\* result[i] = (h0 >> (24 - i * 8)) & 0xFF; ... for h0..h4
ShaBytes(h) ==
  [k \in 1..20 |->
     LET x == h[((k - 1) \div 4) + 1]
         i == (k - 1) % 4 IN
     IF i = 0 THEN x[1] \div 256 ELSE IF i = 1 THEN x[1] % 256
     ELSE IF i = 2 THEN x[2] \div 256 ELSE x[2] % 256]

\* the four characters base64Encode appends for the bytes from offset i
Base64Group(data, i) ==
  LET n == data[i + 1] * 65536
             + (IF i + 1 < Len(data) THEN data[i + 2] * 256 ELSE 0)
             + (IF i + 2 < Len(data) THEN data[i + 3] ELSE 0) IN
  <<Base64Chars[((n \div 262144) % 64) + 1],
    Base64Chars[((n \div 4096) % 64) + 1],
    IF i + 1 < Len(data) THEN Base64Chars[((n \div 64) % 64) + 1] ELSE "=",
    IF i + 2 < Len(data) THEN Base64Chars[(n % 64) + 1] ELSE "=">>
\* for (i = 0; i < data.size(); i += 3) ...
RECURSIVE Base64From(_, _)
Base64From(data, i) ==
  IF i >= Len(data) THEN <<>>
  ELSE Base64Group(data, i) \o Base64From(data, i + 3)
base64Encode(data) == Base64From(data, 0)

AcceptInit ==
  /\ ServerInit
  /\ detail \in {[stage |-> "combine", key |-> k, msg |-> <<>>, block |-> 0,
                   j |-> 0, w |-> <<>>, h |-> ShaInit, v |-> ShaInit,
                   digest |-> <<>>, accept |-> <<>>] : k \in ClientKeys}

\* std::string combined = clientKey + "258EAFA5-..."; sha1(combined): msg,
\* bitLen, padding, length
GaCombine ==
  /\ detail.stage = "combine"
  /\ detail' = [detail EXCEPT !.msg = ShaPad(detail.key \o MagicGuid),
                              !.stage = "block"]
  /\ UNCHANGED serverVars

\* for (i = 0; i < msg.size(); i += 64) { w[0..79]; a..e = h0..h4;
ShaBlock ==
  /\ detail.stage = "block" /\ detail.block * 64 < Len(detail.msg)
  /\ detail' = [detail EXCEPT
                  !.w = ShaSchedule([j \in 1..16 |->
                           ShaWord(detail.msg, detail.block * 64, j - 1)]),
                  !.v = detail.h, !.j = 0, !.stage = "round"]
  /\ UNCHANGED serverVars

\* for (j = 0; j < 80; ++j) {...}: one round
ShaStep ==
  /\ detail.stage = "round" /\ detail.j < 80
  /\ detail' = [detail EXCEPT
                  !.v = ShaRound(detail.v, detail.j, detail.w[detail.j + 1]),
                  !.j = detail.j + 1]
  /\ UNCHANGED serverVars

\* h0 += a; h1 += b; h2 += c; h3 += d; h4 += e; }
ShaAdd ==
  /\ detail.stage = "round" /\ detail.j = 80
  /\ detail' = [detail EXCEPT
                  !.h = [k \in 1..5 |-> Add32(detail.h[k], detail.v[k])],
                  !.block = detail.block + 1, !.stage = "block"]
  /\ UNCHANGED serverVars

\* std::vector<uint8_t> result(20); ... return result;
ShaResult ==
  /\ detail.stage = "block" /\ detail.block * 64 >= Len(detail.msg)
  /\ detail' = [detail EXCEPT !.digest = ShaBytes(detail.h),
                              !.stage = "base64"]
  /\ UNCHANGED serverVars

\* return base64Encode(hash);
GaEncode ==
  /\ detail.stage = "base64"
  /\ detail' = [detail EXCEPT !.accept = base64Encode(detail.digest),
                              !.stage = "done"]
  /\ UNCHANGED serverVars

AcceptNext ==
  \/ GaCombine \/ ShaBlock \/ ShaStep \/ ShaAdd \/ ShaResult \/ GaEncode

AcceptSpec == AcceptInit /\ [][AcceptNext]_vars

\* ------------------------------------------- facade calls from a callback
\* onConnect_ / onMessage_ run on the connection's own thread, inside
\* clientLoop (lines 273-274 and 285-286) and outside clientsMutex_; here
\* the callback calls send(own id, ...) or stop().
\* thread i is inside onConnect_(i) or onMessage_(msg), or has just left it
InCallback(i) ==
  /\ pc[i] = "c_run" /\ rx[i] # <<>>
  /\ rx[i][Len(rx[i])] \in {"REQ_OK", "TEXT", "BINARY"}

\* the callback calls send(clientId, message): sendFrame(clientId, TEXT, ...)
CbSend(i) ==
  /\ At(i, "c_run") /\ InCallback(i)
  /\ budget > 0
  /\ budget' = budget - 1
  /\ pc' = Goto(i, "sf_lock")
  /\ loc' = [loc EXCEPT ![i] = [NoLoc EXCEPT !.id = i, !.op = "TEXT",
                                            !.ret = "c_run"]]
  /\ UNCHANGED <<sharedVars, peerVars, histVars, mainRes, started, userOp,
                 userRes, snap>>
  /\ UNCHANGED detail

\* the callback calls stop(): if (!running_) return; running_ = false;
CbStopCall(i) ==
  /\ At(i, "c_run") /\ InCallback(i)
  /\ budget > 0
  /\ budget' = budget - 1
  /\ IF running
       THEN /\ running' = FALSE
            /\ pc' = Goto(i, "cb_listen")
       ELSE UNCHANGED <<running, pc>>
  /\ UNCHANGED <<listenOpen, nextClientId, clients, mutex, clientThreads,
                 loc, htab, peerVars, histVars, mainRes, started, userOp,
                 userRes, snap, hused>>
  /\ UNCHANGED detail

\* closesocket(listenSocket_); listenSocket_ = INVALID_SOCKET;
CbStopCloseListen(i) ==
  /\ At(i, "cb_listen")
  /\ listenOpen' = FALSE
  /\ pc' = Goto(i, "cb_clear")
  /\ UNCHANGED <<running, nextClientId, clients, mutex, clientThreads, loc,
                 htab, peerVars, histVars, callVars, hused>>
  /\ UNCHANGED detail

\* { lock_guard lock(clientsMutex_); closesocket of every client;
\*   clients_.clear(); }
CbStopClear(i) ==
  /\ At(i, "cb_clear")
  /\ mutex = 0
  /\ htab' = CloseAll({clients[j].socket : j \in Registered})
  /\ clients' = [j \in Ids |-> NoClient]
  /\ pc' = Goto(i, "cb_join")
  /\ UNCHANGED <<running, listenOpen, nextClientId, mutex, clientThreads,
                 loc, peerVars, histVars, callVars, hused>>
  /\ UNCHANGED detail

\* the threads of clientThreads_ that stop() on thread i joins before it
\* comes to the entry of thread i itself (the vector is in accept order)
JoinedBeforeSelf(i) == {AccT} \cup {t \in clientThreads : t < i}
\* acceptThread_.join(); for (auto &t : clientThreads_) t.join(); on the
\* entry of the calling thread join() throws std::system_error
\* (resource_deadlock_would_occur); nothing in stop() or clientLoop catches
\* it, and an exception leaving the thread function ends the process.
CbStopJoinSelf(i) ==
  /\ At(i, "cb_join")
  /\ i \in clientThreads
  /\ \A t \in JoinedBeforeSelf(i) : pc[t] = "done"
  /\ pc' = Goto(i, "cb_throw")
  /\ crashed' = i
  /\ UNCHANGED <<sharedVars, loc, peerVars, wire, events, rx, uaf, wfail,
                 callVars>>
  /\ UNCHANGED detail

CallbackStep(i) ==
  \/ CbSend(i) \/ CbStopCall(i) \/ CbStopCloseListen(i) \/ CbStopClear(i)
  \/ CbStopJoinSelf(i)

\* the server with callbacks that call the facade, and no other caller
CallbackNext ==
  \/ Start \/ AcceptStep \/ PeerStep
  \/ \E i \in Ids : ClientStep(i) \/ CallbackStep(i)

CallbackSpec == Init /\ [][CallbackNext]_vars

\* ------------------------------- the first frame behind the handshake
\* The client's stream: its handshake request and, behind it, its first two
\* frames; "F1" the header bytes of the first frame, "D1" its payload, "F2"
\* and "D2" those of the second.  The transport delivers the stream in
\* reads cut anywhere (Cuts), so the first frame can arrive in the same read
\* as the request or in a read of its own.
FirstFrames == <<"F1", "D1", "F2", "D2">>

FirstFrameInit ==
  /\ ServerInit
  /\ \E r \in KeyRequests \cup NoKeyRequests :
       \E c \in Cuts(Len(r) + Len(FirstFrames)) :
         detail = [stage |-> "recv", request |-> r \o FirstFrames,
                   cuts |-> c, buffer |-> <<>>, key |-> <<>>,
                   result |-> "none", frameAt |-> Len(r) + 1, first |-> 0]

\* clientLoop after performHandshake returned true: readFrame(client->socket,
\* msg) reads its two header bytes with recv(sock, ...) from the stream
\* where the recv of performHandshake left it; `first` is the position in
\* the client's stream of the bytes it takes for the header.  With nothing
\* left in the stream the call blocks.
FfReadFrame ==
  /\ detail.stage = "done" /\ detail.result = "true"
  /\ Len(detail.buffer) < Len(detail.request)
  /\ detail' = [detail EXCEPT !.stage = "frame",
                              !.first = Len(detail.buffer) + 1]
  /\ UNCHANGED serverVars

FirstFrameNext == PhRecv \/ PhFindKey \/ PhRespond \/ FfReadFrame

FirstFrameSpec == FirstFrameInit /\ [][FirstFrameNext]_vars

\* ================================================================ claims
Has(seq, x) == \E k \in DOMAIN seq : seq[k] = x
HasOp(c, o) == \E k \in DOMAIN wire[c] : wire[c][k].op = o
\* frames [op, data] written to connection c
Written(c, o, d) ==
  Cardinality({k \in DOMAIN wire[c] : wire[c][k] = [op |-> o, data |-> d]})
\* the handle registered for i still names connection i
TransportOpen(i) == htab[clients[i].socket] = i
Finished(t) == pc[t] \in {"none", "done"}
UserReturned(name) ==
  userOp.name = name /\ pc[UserT] = "idle" /\ userRes # "pending"

StopPending == pc[MainT] \in {"s_listen", "s_clear", "s_join"}
\* a step of stop() itself or of a thread stop() joins
StopThreadsStep == MainStep \/ AcceptStep \/ \E i \in Ids : ClientStep(i)

\* C1: a stop() in progress always returns, peers staying silent: while
\* stop() has not returned (and the process is alive and the registry lock
\* is free) stop() or one of the threads it joins can take a step that needs
\* no input from a peer.
C1_StopAlwaysReturns ==
  (StopPending /\ crashed = 0 /\ mutex = 0) => ENABLED StopThreadsStep

\* C2: when stop() has returned, the accept thread and every connection
\* thread have ended, the registry is empty and isRunning() is false.
C2_StopReturnsClean ==
  (pc[MainT] = "idle" /\ mainRes \in {"stopped", "stop_noop"}) =>
    /\ \A t \in Ids \cup {AccT} : Finished(t)
    /\ Registered = {} /\ clientCount = 0
    /\ ~isRunning
\* stop() has returned after a connection was accepted, opened and served
C2_Witness ==
  /\ pc[MainT] = "idle" /\ mainRes = "stopped"
  /\ \E i \in Ids : pc[i] = "done" /\ Has(events[i], Callback("onConnect"))

\* what readFrame saw of a truncated frame / of a frame whose declared
\* length cannot be allocated
Malformed == {"TRUNC", "throw"}
\* C3: after an OPEN connection sent a truncated or malformed frame the
\* process is alive, that connection's thread ends with the id out of the
\* registry and onDisconnect fired, and every other registered OPEN
\* connection still has its transport.
C3_Isolation ==
  \A i \in Ids :
    (\E k \in DOMAIN rx[i] : rx[i][k] \in Malformed) =>
      /\ crashed = 0
      /\ pc[i] = "done" =>
           ~clients[i].present /\ Has(events[i], Callback("onDisconnect"))

\* no connection was opened or closed during the call: the connections
\* broadcast found are the registered OPEN ones, their transports are up,
\* and the server was not stopped
Undisturbed ==
  /\ mainRes = "start_true" /\ running
  /\ snap = {i \in Registered : clients[i].connected}
  /\ \A i \in snap : /\ clients[i].present /\ clients[i].connected
                     /\ TransportOpen(i) /\ ~peerClosed[i]
\* C4: when broadcast(m) has ended with no disconnect meanwhile, it has
\* returned normally, exactly one TEXT frame with m is on every connection
\* that was registered and OPEN, none on any other, and the registry is
\* what it was.
C4_BroadcastFanOut ==
  (UserReturned("broadcast") /\ Undisturbed) =>
    /\ userRes = "void"
    /\ \A c \in Ids :
         Written(c, "TEXT", userOp.call) = IF c \in snap THEN 1 ELSE 0
    /\ snap \subseteq Registered

\* C5: when closeClient(id) on a registered OPEN connection has ended, it
\* has returned normally, the transport of id is closed and id is not in
\* the registry.
C5_CloseClientUnregisters ==
  (UserReturned("closeClient") /\ userOp.id \in snap) =>
    /\ userRes = "void"
    /\ ~ConnOpen(userOp.id)
    /\ userOp.id \notin Registered

\* the positions in which a thread is inside recv or ::send on a client
\* socket
InSocketIo == {"hs_recv", "hs_send", "rf_recv", "sf_io"}
\* C6: no thread is inside a socket send or recv while it holds
\* clientsMutex_.
C6_NoIoUnderLock ==
  \A t \in Threads : pc[t] \in InSocketIo => mutex # t

\* C7: no two threads are writing frame bytes to the same connection at
\* the same time.
C7_WritesSerialized ==
  \A t1, t2 \in Threads :
    (t1 # t2 /\ pc[t1] = "sf_io" /\ pc[t2] = "sf_io") =>
      loc[t1].tgt # loc[t2].tgt

\* C8: on every connection, every frame written comes after the 101
\* response written on it.
C8_NoFrameBeforeHandshake ==
  \A c \in Ids : \A k \in DOMAIN wire[c] :
    wire[c][k].op # "101" => \E j \in 1..(k - 1) : wire[c][j].op = "101"

\* C9: every registered id belongs to a connection whose 101 response has
\* been written.
C9_RegisteredAfterHandshake ==
  \A i \in Registered : HasOp(i, "101")

\* C10: while the registry lock is free, every registered connection has an
\* open transport and, once opened, is not marked disconnected.
C10_RegisteredSendable ==
  mutex = 0 =>
    \A i \in Registered :
      /\ TransportOpen(i)
      /\ Has(events[i], Callback("onConnect")) => clients[i].connected

\* what readFrame's caller got when the peer sent CLOSE or the read failed
TeardownCauses == {"CLOSE", "ERR", "EOF", "TRUNC"}
TeardownDue(i) ==
  crashed = 0 /\ rx[i] # <<>> /\ rx[i][Len(rx[i])] \in TeardownCauses
\* the steps the caller thread takes by itself once it is inside a call
UserCont ==
  \/ BcLock \/ BcNext \/ BcReturn \/ CcLock \/ CcClose
  \/ SendFrameStep(UserT)
  \/ SfRelockDeadlock(UserT) \/ SfRelockThrow(UserT)
  \/ SfRelockReenter(UserT)
\* C11: once an OPEN connection's read returned a CLOSE frame or failed,
\* its teardown goes on to the end whatever the other threads do: until its
\* thread has ended, the thread can take its next step, or it waits for the
\* registry lock and the owner of the lock can take a step.
C11_TeardownHappens ==
  \A i \in Ids :
    (TeardownDue(i) /\ pc[i] # "done") =>
      \/ ENABLED ClientStep(i)
      \/ mutex # 0 /\ ENABLED UserCont

\* C12: a connection on which the write of a frame failed while it was OPEN
\* is OPEN no longer: it is marked disconnected or out of the registry as
\* soon as the failed sendFrame has returned.
C12_WriteFailureFatal ==
  \A f \in wfail : ~(clients[f[1]].present /\ clients[f[1]].connected)

\* the last thing readFrame returned to clientLoop(i), "" before the first
LastRx(i) == IF rx[i] = <<>> THEN "" ELSE rx[i][Len(rx[i])]
\* C13: a connection whose loop has just been handed a CONTINUATION frame is
\* OPEN no longer: it is marked disconnected or out of the registry.
C13_ContinuationTornDown ==
  \A i \in Ids :
    LastRx(i) = "CONTINUATION" => ~(clients[i].present /\ clients[i].connected)

\* the payload bytes readFrame has read from the socket
BytesRead == IF detail.received > 0 THEN detail.received ELSE 0
\* C14: when readFrame returns true, the payload bytes it read from the
\* socket are as many as the frame header declared.
C14_ReadFrameLength ==
  (detail.stage = "done" /\ detail.result = "true") =>
     detail.payloadLen = U64Of(BytesRead)

\* the caller thread takes a step of its call
UserMoves == pc'[UserT] # pc[UserT]
InSend == userOp.name \in {"send", "sendBinary"}
\* the step leaves the connections, the registry and the running flag alone
Untouched ==
  wire' = wire /\ clients' = clients /\ running' = running /\ htab' = htab
\* sendFrame's lookup does not find the id: send / sendBinary return false
SendUnknownId ==
  (InSend /\ pc[UserT] = "sf_lock" /\ UserMoves
     /\ ~clients[userOp.id].present) =>
    pc'[UserT] = "idle" /\ userRes' = "false" /\ Untouched
\* the write does not put the frame on the connection: they return false
SendWriteFails ==
  (InSend /\ pc[UserT] \in {"sf_send", "sf_io"} /\ UserMoves
     /\ pc'[UserT] = "idle" /\ wire' = wire) =>
    userRes' = "false" /\ Untouched
\* closeClient does not find the id: it returns and has done nothing
CloseUnknownId ==
  (userOp.name = "closeClient" /\ pc[UserT] = "cc_lock" /\ UserMoves
     /\ ~clients[userOp.id].present) =>
    pc'[UserT] = "idle" /\ userRes' = "void" /\ mutex' = mutex /\ Untouched
\* a send / sendBinary that returned false left no frame on any connection
FailedSendWroteNothing ==
  (InSend /\ pc[UserT] = "idle" /\ userRes = "false") =>
    \A c \in Ids, o \in {"TEXT", "BINARY"} : Written(c, o, userOp.call) = 0
\* C15: send and sendBinary on an id that is not in the registry return
\* false, closeClient on such an id does nothing, send returns false when
\* its write fails; none of these writes to any connection or changes the
\* registry or the running flag.
C15_UnknownIdFailsCleanly ==
  /\ []FailedSendWroteNothing
  /\ [][SendUnknownId /\ SendWriteFails /\ CloseUnknownId]_vars
\* send on an id never handed out has returned false while a connection is
\* OPEN
C15_Witness ==
  /\ InSend /\ pc[UserT] = "idle" /\ userRes = "false"
  /\ userOp.id >= nextClientId
  /\ \E c \in Registered : clients[c].connected /\ TransportOpen(c)

\* the broadcast has returned, has ended by exception, or is blocked for
\* good
BroadcastOver ==
  /\ userOp.name = "broadcast"
  /\ \/ pc[UserT] = "idle" /\ userRes # "pending"
     \/ pc[UserT] = "deadlocked"
\* ids the broadcast's write failed on
BroadcastFailed == {i \in Ids : <<i, userOp.call>> \in wfail}
\* c was registered and OPEN when broadcast took the lock and still is (a
\* connection never opens twice, so it was all the time between)
OpenThroughout(c) ==
  /\ c \in snap /\ clients[c].present /\ clients[c].connected
  /\ TransportOpen(c) /\ ~peerClosed[c]
StopStep ==
  /\ pc[MainT] = "idle"
  /\ mainRes' \in {"stopping", "stop_noop"}
  /\ mainRes' # mainRes \/ pc'[MainT] # "idle"
\* no start() was ever called, or the last call was a stop() that returned
NothingToStop == ~started \/ mainRes \in {"stopped", "stop_noop"}
\* C17: stop() before any start(), and stop() after a stop() has returned,
\* returns at once, changes nothing of the server and leaves isRunning()
\* false.
C17_StopIdempotent ==
  [][(StopStep /\ NothingToStop) =>
       /\ mainRes' = "stop_noop" /\ pc' = pc
       /\ UNCHANGED <<sharedVars, peerVars, histVars, loc>>
       /\ ~isRunning']_vars
\* stop() was called again after an earlier stop() had joined the threads
\* of a server that had served a connection
C17_Witness ==
  /\ pc[MainT] = "idle" /\ mainRes = "stop_noop"
  /\ clientThreads = {}
  /\ \E i \in Ids : pc[i] = "done" /\ Has(events[i], Callback("onDisconnect"))

\* the controlling thread's start() on a server that is not running
\* returns false
StartFails == Start /\ ~running /\ mainRes' = "start_false"
\* C18: a start() that fails on a server that is not running leaves
\* isRunning() false, starts no accept thread, leaves no listening socket
\* open and changes nothing else of the server, so that what follows is
\* what would follow without the call.
C18_StartFailureLeavesNothing ==
  [][StartFails =>
       /\ ~isRunning' /\ ~listenOpen'
       /\ pc' = pc
       /\ UNCHANGED <<sharedVars, peerVars, histVars, loc>>]_vars
\* start() has failed on a server that was never started
C18_Witness ==
  /\ pc[MainT] = "idle" /\ mainRes = "start_false"
  /\ pc[AccT] = "none" /\ ~running

\* C19: the ids handed out are strictly increasing in accept order (so no
\* two connections get the same id), across disconnects and across stop()
\* followed by start().
C19_IdsIncrease ==
  detail.stage = "ids" =>
    \A j, k \in DOMAIN detail.issued :
      j < k => Less32(detail.issued[j], detail.issued[k])

\* the handshake request clientLoop(i) read had no Sec-WebSocket-Key
NoKeyRequest(i) == rx[i] # <<>> /\ rx[i][1] = "REQ_NOKEY"
\* the handshake of client i has written a 101 response
Wrote101(i) == \E c \in Ids : Written(c, "101", i) > 0
\* C20: for a connection whose handshake request has no Sec-WebSocket-Key
\* the handshake writes no 101 response and no callback fires, and when its
\* thread has ended its socket is closed and its id is not in the registry.
C20_NoKeyIsHardFailure ==
  \A i \in Ids :
    NoKeyRequest(i) =>
      /\ ~Wrote101(i)
      /\ events[i] = <<>>
      /\ pc[i] = "done" => ~ConnOpen(i) /\ i \notin Registered
\* the thread of a connection that sent such a request has ended while the
\* server runs
C20_Witness ==
  \E i \in Ids : NoKeyRequest(i) /\ pc[i] = "done" /\ running

\* C21: a request that carries Sec-WebSocket-Key and ends in a blank line is
\* accepted, with the key it carries, however the transport splits it across
\* reads.
C21_SplitRequestAccepted ==
  (detail.stage = "done" /\ detail.request \in KeyRequests)
     => (detail.result = "true" /\ detail.key = <<"V", "V">>)

\* connection i is OPEN and nothing has disturbed it: registered, connected,
\* its socket open and its peer there.  (Once false it stays false.)
Open(i) ==
  /\ clients[i].present /\ clients[i].connected
  /\ htab[clients[i].socket] = i
  /\ ~peerClosed[i]
\* the payload of the last frame read from connection i
LastReadPayload(i) ==
  Payload(i, IF inbox[i] = <<>> THEN peerSent[i] ELSE peerSent[i] - 1)
\* thread i is in the sendFrame that answers a PING
InPong(i) == pc[i] \in {"sf_lock", "sf_send", "sf_io"} /\ loc[i].op = "PONG"
\* this step: readFrame returns a PING to thread i
PingRead(i) == pc[i] = "rf_recv" /\ pc'[i] = "sf_lock"
\* this step: the sendFrame that answers a PING returns to the receive loop
PongReturn(i) == InPong(i) /\ pc'[i] = "c_run"

\* C22: a PING decoded on an OPEN connection is answered, before the next
\* frame is read, with exactly one PONG that carries the PING's payload and
\* is written to the same connection; the connection stays OPEN and no
\* callback fires for the PING.
C22_PingAnswered ==
  [][\A i \in Ids :
       /\ PingRead(i) =>
            (events' = events /\ clients' = clients /\ wire' = wire)
       /\ (InPong(i) /\ pc'[i] # pc[i] /\ ~PongReturn(i)) => wire' = wire
       /\ (PongReturn(i) /\ Open(i)) =>
            /\ wire' = [wire EXCEPT ![i] =
                          Append(@, [op |-> "PONG",
                                     data |-> LastReadPayload(i)])]
            /\ events' = events /\ clients' = clients
            /\ Open(i)']_vars

\* a PING was answered on a connection that is OPEN, and the loop is back at
\* its head
C22_Witness ==
  \E i \in Ids :
    /\ Open(i) /\ pc[i] = "c_run" /\ LastRx(i) = "PING"
    /\ Written(i, "PONG", LastReadPayload(i)) = 1

\* the connection and the position in its stream of the item with payload p
PayloadConn(p) == ((p - MaxEvents - 1) % MaxConn) + 1
PayloadSeq(p) == ((p - MaxEvents - 1) \div MaxConn) + 1
\* the onMessage calls made for id i, in order
Messages(i) == SelectSeq(events[i], LAMBDA e : e.cb = "onMessage")

\* C23: the messages delivered to onMessage with the id of a connection are
\* TEXT/BINARY frames received on that connection, each delivered once, in
\* the order received, with the frame's opcode and payload.
C23_OrderedDelivery ==
  \A i \in Ids :
    LET m == Messages(i) IN
    \A k \in DOMAIN m :
      /\ m[k].op \in {"TEXT", "BINARY"}
      /\ PayloadConn(m[k].data) = i
      /\ k > 1 => PayloadSeq(m[k - 1].data) < PayloadSeq(m[k].data)

\* C24: the bytes sendFrame builds: byte 0 is FIN with the opcode in the low
\* four bits and no reserved bit; the MASK bit of byte 1 is clear; the length
\* is byte 1 itself up to 125, 126 and two big-endian bytes up to 65535, 127
\* and eight big-endian bytes from 65536; the payload follows unchanged.
C24_FrameEncoding ==
  detail.stage \in {"wire", "header"} /\ detail.sent # NoFrame =>
    LET h == detail.frame.head
        n == detail.sent.data.len IN
    /\ h[1] \div 16 = 8 /\ h[1] % 16 = OpByte(detail.sent.opcode)
    /\ h[2] < 128
    /\ n <= 125 => Len(h) = 2 /\ h[2] = n
    /\ (126 <= n /\ n <= 65535) =>
         Len(h) = 4 /\ h[2] = 126 /\ h[3] * 256 + h[4] = n
    /\ n >= 65536 =>
         /\ Len(h) = 10 /\ h[2] = 127
         /\ \A k \in 3..6 : h[k] = 0
         /\ ((h[7] * 256 + h[8]) * 256 + h[9]) * 256 + h[10] = n
    /\ detail.frame.data = detail.sent.data

\* sendFrame has built a frame of the first length of the 64-bit tier
C24_Witness ==
  /\ detail.stage = "wire" /\ detail.sent.data.len = 65536
  /\ detail.sent.opcode = "BINARY" /\ detail.frame.head[2] = 127

\* the length the header and the extended length bytes declare
DeclaredLen ==
  IF Len7(detail) = 126 THEN <<0, 0, 0, detail.ext[1] * 256 + detail.ext[2]>>
  ELSE IF Len7(detail) = 127
    THEN [w \in 1..4 |-> detail.ext[2 * w - 1] * 256 + detail.ext[2 * w]]
  ELSE <<0, 0, 0, Len7(detail)>>
\* C25: a frame readFrame returns true for is decoded as sent: the opcode is
\* the low four bits of byte 0, the mask flag bit 7 of byte 1, the length
\* what byte 1 or the 2 or 8 bytes after it declare, the key the four bytes
\* after the length of a masked frame; exactly that many payload bytes were
\* read and the payload returned is those bytes, each XORed with
\* key[i mod 4] when the frame is masked.
C25_FrameDecoding ==
  (detail.stage = "done" /\ detail.result = "true") =>
    /\ detail.opcode < 16 /\ (detail.header[1] - detail.opcode) % 16 = 0
    /\ detail.masked = (detail.header[2] >= 128)
    /\ detail.payloadLen = DeclaredLen
    /\ detail.masked => detail.mask = detail.key
    /\ U64Of(BytesRead) = DeclaredLen
    /\ DeclaredLen # Zero64 =>
         /\ detail.data.size = DeclaredLen
         /\ detail.data.pat =
              Content(BytesRead,
                      IF detail.masked
                        THEN [k \in 1..4 |-> Xor(detail.pat[k], detail.key[k])]
                        ELSE detail.pat)

\* C26: a frame that sendFrame encodes and readFrame decodes, sent as it is
\* or masked with a key as a client sends it, comes back with its opcode and
\* its payload.
C26_RoundTrip ==
  (detail.stage = "done" /\ detail.sent # NoFrame) =>
    /\ detail.result = "true"
    /\ detail.opcode = OpByte(detail.sent.opcode)
    /\ detail.payloadLen = U64Of(detail.sent.data.len)
    /\ detail.data.bytes = detail.sent.data.len
    /\ detail.data.pat = Content(detail.sent.data.len, detail.sent.data.pat)

\* a masked PING of 65536 bytes has been sent and decoded
C26_Witness ==
  /\ detail.stage = "done" /\ detail.sendkey # <<>>
  /\ detail.sent.opcode = "PING" /\ detail.sent.data.len = 65536
  /\ detail.result = "true"

\* "s3pPLMBiTxaQ9kYGzzhZRbK+xOo="
RfcAccept ==
  <<"s", "3", "p", "P", "L", "M", "B", "i", "T", "x", "a", "Q", "9", "k",
  "Y", "G", "z", "z", "h", "Z", "R", "b", "K", "+", "x", "O", "o", "=">>
\* "HSmrc0sMlYUkAGmm5OPpG2HaGWk="
OtherAccept ==
  <<"H", "S", "m", "r", "c", "0", "s", "M", "l", "Y", "U", "k", "A", "G",
  "m", "m", "5", "O", "P", "p", "G", "2", "H", "a", "G", "W", "k", "=">>
\* "Kfh9QIsMVZcl6xEPYxPHzW8SZ8w="
EmptyAccept ==
  <<"K", "f", "h", "9", "Q", "I", "s", "M", "V", "Z", "c", "l", "6", "x",
  "E", "P", "Y", "x", "P", "H", "z", "W", "8", "S", "Z", "8", "w", "=">>

\* C27: the accept value is the Base64 of the SHA-1 of the key followed by
\* the GUID: for the key "dGhlIHNhbXBsZSBub25jZQ==" it is
\* "s3pPLMBiTxaQ9kYGzzhZRbK+xOo=", and for the other keys the value the
\* reference algorithms give.
C27_AcceptValue ==
  detail.stage = "done" =>
    detail.accept = (IF detail.key = RfcKey THEN RfcAccept
                     ELSE IF detail.key = OtherKey THEN OtherAccept
                     ELSE EmptyAccept)

\* the accept value of the RFC's key has been computed
C27_Witness ==
  detail.stage = "done" /\ detail.key = RfcKey /\ Len(detail.accept) = 28

\* C28: no connection thread reads or writes a field of its WSClient
\* (connected, socket, lastActivity) through its pointer once the entry has
\* been erased from the registry or the registry has been cleared.
C28_NoUseAfterErase == ~uaf

\* C29: the frame of a send(id, ...) or sendBinary(id, ...) is written to no
\* connection but the one accepted for id.
C29_FramesReachAddressee ==
  userOp.name \in {"send", "sendBinary"} =>
    \A c \in Ids \ {userOp.id} : \A o \in {"TEXT", "BINARY"} :
      Written(c, o, userOp.call) = 0

\* this step: closesocket on the socket of connection i, by its own thread
\* (handshake failure or the end of its loop), by closeClient, by stop()
ThreadCloses(i) == pc[i] \in {"x_close", "hf_close"} /\ pc'[i] = "x_erase"
UserCloses(i) ==
  pc[UserT] = "cc_close" /\ pc'[UserT] # "cc_close" /\ userOp.id = i
StopCloses(i) ==
  pc[MainT] = "s_clear" /\ pc'[MainT] # "s_clear" /\ clients[i].present
\* the step closes the socket accepted for i, which was open, and no other
FirstCloseOf(i) ==
  /\ ConnOpen(i)
  /\ \A h \in Handles : htab'[h] # htab[h] => htab[h] = i
\* C30: every closesocket made for a connection closes the socket accepted
\* for it and finds it open (so no handle is closed twice, and none that
\* has passed to another connection), and a connection whose thread has
\* ended has its socket closed.
C30_ClosedExactlyOnce ==
  /\ [](\A i \in Ids : pc[i] = "done" => ~ConnOpen(i))
  /\ [][\A i \in Ids :
          /\ (ThreadCloses(i) \/ UserCloses(i)) => FirstCloseOf(i)
          /\ StopCloses(i) => ConnOpen(i)]_vars

\* C31: once onDisconnect(id) has been invoked, the socket of connection id
\* is closed and id is not in the registry.
C31_DisconnectAfterTeardown ==
  \A i \in Ids :
    Has(events[i], Callback("onDisconnect")) =>
      ~clients[i].present /\ ~ConnOpen(i)

\* the callbacks in e are onConnect, then onMessage calls, then at most one
\* onDisconnect
Bracketed(e) ==
  \A k \in DOMAIN e :
    /\ e[k].cb = "onConnect" <=> k = 1
    /\ e[k].cb = "onDisconnect" => (k = Len(e) /\ k > 1)
\* C32: the callbacks of one id are onConnect once, fired only after the
\* handshake of that id wrote its 101, then its onMessage calls, then
\* onDisconnect once and nothing after it; an id whose onConnect fired and
\* whose thread has ended (whatever ended it) has had its onDisconnect.
C32_CallbacksBracketed ==
  \A i \in Ids :
    /\ Bracketed(events[i])
    /\ events[i] # <<>> => Wrote101(i)
    /\ (pc[i] = "done" /\ events[i] # <<>>) =>
         events[i][Len(events[i])].cb = "onDisconnect"

\* a connection that delivered a message has ended after stop() or
\* closeClient
C32_Witness ==
  \E i \in Ids :
    /\ pc[i] = "done" /\ Len(events[i]) = 3
    /\ events[i][2].cb = "onMessage"
    /\ mainRes = "stopped" \/ userOp.name = "closeClient"

\* closeClient(i) has returned after it found i, marked it disconnected and
\* closed its socket
ClosedByCloseClient(i) ==
  /\ userOp.name = "closeClient" /\ userOp.id = i /\ userRes = "void"
  /\ clients[i].present /\ ~ConnOpen(i)
\* this step: connected of i goes from false to true / onConnect(i) fires
MarkedOpen(i) == ~clients[i].connected /\ clients'[i].connected
FiresConnect(i) == events[i] = <<>> /\ events'[i] # <<>>
\* C33: a connection that closeClient has marked disconnected and closed is
\* never marked connected again, and onConnect does not fire for it.
C33_NeverBackwards ==
  [][\A i \in Ids :
       ClosedByCloseClient(i) => ~MarkedOpen(i) /\ ~FiresConnect(i)]_vars

\* C34: stop() called from a callback, on the connection's own thread,
\* returns: it never ends at the join of the calling thread itself.
C34_CallbackStopReturns == \A i \in Ids : pc[i] # "cb_throw"

\* C35: when the first read holds the whole handshake request, the first
\* frame the receive loop decodes starts at the first header byte of the
\* first frame the client sent, also when that frame arrived in the same
\* read as the request.
C35_FirstFrameIntact ==
  (detail.stage = "frame" /\ Len(detail.buffer) >= detail.frameAt - 1) =>
    detail.first = detail.frameAt

\* the accept thread is running acceptLoop
AcceptAlive == pc[AccT] \in {"a_run", "a_accept", "a_insert"}
\* C36: start() on a running server returns false and changes nothing
\* (listening socket, accept thread, registry, running flag), and a running
\* server has its listening socket open and its accept thread alive.
C36_StartOnRunningNoop ==
  /\ [](running => listenOpen /\ AcceptAlive)
  /\ [][(Start /\ running) =>
          /\ mainRes' = "start_false" /\ pc' = pc
          /\ UNCHANGED <<sharedVars, peerVars, histVars, loc>>]_vars
\* start() has returned false on a running server that holds a connection
C36_Witness ==
  /\ pc[MainT] = "idle" /\ mainRes = "start_false"
  /\ running /\ listenOpen /\ AcceptAlive
  /\ \E i \in Ids : clients[i].present

\* the last call of the controlling thread was a stop() that stopped a
\* running server and has returned
AfterStop == pc[MainT] = "idle" /\ mainRes = "stopped"
\* nothing of a run is left: no registry entry, no thread object, no thread
\* still running, no connection socket and no listening socket
NothingLeft ==
  /\ Registered = {} /\ clientThreads = {}
  /\ \A t \in Ids \cup {AccT} : Finished(t)
  /\ \A h \in Handles : htab[h] = 0
  /\ ~listenOpen /\ mutex \notin Ids \cup {AccT, MainT}
\* start() succeeds on a server whose last call was a stop() that returned
Restart == Start /\ AfterStop /\ mainRes' = "start_true"
\* C37: when stop() has returned nothing of the run is left, start() can
\* succeed again, and the start() that succeeds leaves a running server
\* with a listening socket, a new accept thread and an empty registry.
C37_Restartable ==
  /\ [](AfterStop => NothingLeft /\ ~running /\ (budget > 0 => ENABLED Restart))
  /\ [][Restart =>
          /\ running' /\ listenOpen' /\ pc'[AccT] = "a_run"
          /\ Registered' = {} /\ clientThreads' = {}
          /\ \A i \in Ids : Finished(i)']_vars
\* after a stop() that ended a served connection the server was started
\* again and has accepted, registered and opened a new connection
C37_Witness ==
  /\ running /\ mainRes = "start_true"
  /\ \E i, j \in Ids :
       /\ pc[i] = "done" /\ i \notin clientThreads
       /\ Has(events[i], Callback("onDisconnect"))
       /\ j \in clientThreads /\ clients[j].present /\ clients[j].connected
       /\ events[j] = <<Callback("onConnect")>> /\ TransportOpen(j)

====
